---------------------------- MODULE Spec2Model ----------------------------
(***************************************************************************)
(* Carrier Board Communication (CBC) protocol stack of the ACRN device     *)
(* model, src/hw/platform/ioc_cbc.c: the receive ring, the link layer      *)
(* deframer, the framer and the service dispatcher.                        *)
(*                                                                         *)
(* C arrays are functions over 0..N-1 so that indices read as in the       *)
(* source.  x & (2^k - 1) is written x % 2^k, x >> k is x \div 2^k and an  *)
(* OR of disjoint bit fields is a sum.                                     *)
(*                                                                         *)
(* The CBC_ and IOC_ constants, struct cbc_request, struct cbc_pkt and the *)
(* queues between the threads are those of ioc.h and ioc.c of the device   *)
(* model.                                                                  *)
(***************************************************************************)
EXTENDS Integers, Sequences, FiniteSets, TLC

VARIABLES
    ring,             \* struct cbc_ring: head, tail, buf
    remains,          \* static int remains of cbc_unpack_link
    rx_seq_counter,   \* static int rx_seq_counter of cbc_unpack_link
    rx_q,             \* requests handed to ioc_build_request, oldest first
    pkt,              \* struct cbc_pkt with the request it points to
    tx_seq_counter,   \* static size_t tx_seq_counter of cbc_pack_link
    is_active,        \* static bool is_active of cbc_process_signal
    cbc_sig_tbl,      \* pkt->cfg->cbc_sig_tbl
    cbc_grp_tbl,      \* pkt->cfg->cbc_grp_tbl
    xmit,             \* calls of ioc_ch_xmit made by the last handler
    tx_q,             \* requests the rx side routed to the tx side
    op,               \* the last call: its name, inputs and return code
    scn,              \* the byte stream a framing scenario feeds
    ncalls            \* number of cbc_copy_to_ring calls so far

vars == <<ring, remains, rx_seq_counter, rx_q, pkt, tx_seq_counter,
          is_active, cbc_sig_tbl, cbc_grp_tbl, xmit, tx_q, op, scn, ncalls>>

rxVars == <<ring, remains, rx_seq_counter, rx_q>>
svcVars ==
    <<pkt, tx_seq_counter, is_active, cbc_sig_tbl, cbc_grp_tbl, xmit, tx_q>>

----------------------------------------------------------------------------
(* Protocol constants of ioc.h.                                            *)

CBC_RING_BUFFER_SIZE == 256
CBC_MIN_FRAME_SIZE == 8
CBC_MAX_FRAME_SIZE == 96
CBC_MAX_SERVICE_SIZE == 64
CBC_GRANULARITY == 4
CBC_LEN_UNIT == 4
CBC_SOF_VALUE == 5
CBC_EXT_VALUE == 0
CBC_SOF_POS == 0
CBC_ELS_POS == 1
CBC_ADDR_POS == 2
CBC_SRV_POS == 3
CBC_PAYLOAD_POS == 4
CBC_LINK_HDR_SIZE == 3
CBC_ADDR_HDR_SIZE == 1
CBC_SRV_HDR_SIZE == 1
CBC_CHKSUM_SIZE == 1
CBC_EXT_MASK == 1
CBC_LEN_MASK == 31
CBC_SEQ_MASK == 3
CBC_MUX_MASK == 31
CBC_PRIO_MASK == 7
CBC_EXT_OFFSET == 7
CBC_LEN_OFFSET == 2
CBC_SEQ_OFFSET == 0
CBC_MUX_OFFSET == 3
CBC_PRIO_OFFSET == 0
CBC_PRIO_LOW == 2
CBC_PRIO_MEDIUM == 3
CBC_PRIO_HIGH == 6

\* enum ioc_ch_id
IOC_NATIVE_PMT == 0
IOC_NATIVE_LFCC == 1
IOC_NATIVE_SIGNAL == 2
IOC_NATIVE_DIAG == 4
IOC_NATIVE_DLT == 5
IOC_NATIVE_RAW0 == 7
IOC_NATIVE_RAW11 == 18
IOC_VIRTUAL_UART == 19

\* enum cbc_request_type and enum cbc_queue_type
CBC_REQ_T_PROT == 0
CBC_REQ_T_SOC == 3
CBC_QUEUE_T_RX == 0
CBC_QUEUE_T_TX == 1

----------------------------------------------------------------------------
(* C arithmetic.                                                           *)

Pow2(n) == 2 ^ n

\* (x >> off) & mask, for a mask of the form 2^k - 1
Field(x, off, mask) == (x \div Pow2(off)) % (mask + 1)

\* C integer division truncates toward zero
CDiv(a, b) == IF a >= 0 THEN a \div b ELSE -((-a) \div b)

\* x & (CBC_RING_BUFFER_SIZE - 1)
RingMask(x) == x % CBC_RING_BUFFER_SIZE

----------------------------------------------------------------------------
(* Ring buffer.                                                            *)

\* avalids of cbc_unpack_link: the occupied byte count
Avalids(r) ==
    LET d == r.tail - r.head
    IN  IF d >= 0 THEN d ELSE CBC_RING_BUFFER_SIZE + d

\* the unread bytes, oldest first
RingContent(r) ==
    [i \in 1..Avalids(r) |-> r.buf[RingMask(r.head + i - 1)]]

\* CopyByte without the test for a full ring
CopyByteNoFullTest(s, b) ==
    LET r == s.ring
    IN  [s EXCEPT !.ring = [r EXCEPT !.buf[r.tail] = b,
                                     !.tail = RingMask(r.tail + 1)]]

\* CopyByte taking the ring for full one byte early
CopyByteEarlyFull(s, b) ==
    LET r == s.ring
        pos == RingMask(r.tail + 1)
    IN  IF pos # r.head /\ RingMask(pos + 1) # r.head
        THEN [s EXCEPT !.ring = [r EXCEPT !.buf[r.tail] = b, !.tail = pos]]
        ELSE [s EXCEPT !.rc = -1]

\* the body of the for loop for one input byte
CopyByte(s, b) ==
    LET r == s.ring
        pos == RingMask(r.tail + 1)
    IN  IF pos # r.head
        THEN [s EXCEPT !.ring = [r EXCEPT !.buf[r.tail] = b, !.tail = pos]]
        ELSE [s EXCEPT !.rc = -1]

\* the loop over bytes[lo..hi], left to right; after the return -1 the
\* remaining bytes of the call are not looked at
RECURSIVE CopyLoop(_, _, _, _)
CopyLoop(bytes, lo, hi, s) ==
    IF s.rc # 0 \/ lo > hi THEN s
    ELSE IF lo = hi THEN CopyByte(s, bytes[lo])
    ELSE LET mid == (lo + hi) \div 2
         IN  CopyLoop(bytes, mid + 1, hi, CopyLoop(bytes, lo, mid, s))

cbc_copy_to_ring(bytes, r) ==
    CopyLoop(bytes, 1, Len(bytes), [ring |-> r, rc |-> 0])

cbc_ring_skips(r, bytes) == [r EXCEPT !.head = RingMask(r.head + bytes)]

----------------------------------------------------------------------------
(* Checksum: value is a uint16_t.                                          *)

\* value after the loop has added 0x100 - data[i] for i in lo..hi-1
RECURSIVE ChkSum(_, _, _)
ChkSum(data, lo, hi) ==
    IF lo >= hi THEN 0
    ELSE IF lo + 1 = hi THEN 256 - data[lo]
    ELSE LET mid == (lo + hi) \div 2
         IN  (ChkSum(data, lo, mid) + ChkSum(data, mid, hi)) % 65536

cbc_cal_chksum(data, size) == ChkSum(data, 0, size)

\* cbc_verify_chksum accepting every trailing byte
cbc_verify_chksum_any(r, size, c) == 0

\* cbc_verify_chksum comparing the low seven bits only
cbc_verify_chksum_7bit(r, size, c) ==
    LET data == [i \in 0..(size - 1) |-> r.buf[RingMask(r.head + i)]]
    IN  IF ChkSum(data, 0, size) % 128 = c % 128 THEN 0 ELSE -1

cbc_verify_chksum(r, size, c) ==
    LET data == [i \in 0..(size - 1) |-> r.buf[RingMask(r.head + i)]]
    IN  IF ChkSum(data, 0, size) % 256 = c THEN 0 ELSE -1

----------------------------------------------------------------------------
(* Requests: struct cbc_request with buf[CBC_MAX_FRAME_SIZE].             *)

\* a request whose service frame (command byte, then payload) is srv
MkReq(rtype, id, srv, link_len) ==
    [rtype |-> rtype, id |-> id, srv_len |-> Len(srv), link_len |-> link_len,
     buf |-> [i \in 0..(CBC_MAX_FRAME_SIZE - 1) |->
                IF i >= CBC_SRV_POS /\ i < CBC_SRV_POS + Len(srv)
                THEN srv[i - CBC_SRV_POS + 1] ELSE 0]]

\* ioc_build_request: copy link_len bytes at head into a request and queue it
ioc_build_request(r, q, link_len, srv_len) ==
    Append(q, [rtype |-> CBC_REQ_T_PROT, id |-> 0,
               srv_len |-> srv_len, link_len |-> link_len,
               buf |-> [i \in 0..(CBC_MAX_FRAME_SIZE - 1) |->
                          IF i < link_len THEN r.buf[RingMask(r.head + i)]
                          ELSE 0]])

----------------------------------------------------------------------------
(* Link layer deframer.                                                    *)

\* frame_len as cbc_unpack_link derives it from the header byte at CBC_ELS_POS
FrameLenOf(els) ==
    (Field(els, CBC_LEN_OFFSET, CBC_LEN_MASK) + 1) * 4
        + CBC_LINK_HDR_SIZE + CBC_ADDR_HDR_SIZE

\* Resync that leaves the byte at head in the ring
ResyncStay(st) == [st EXCEPT !.remains = 0]

\* Resync dropping two bytes
ResyncTwo(st) == [st EXCEPT !.remains = 0, !.ring = cbc_ring_skips(st.ring, 2)]

\* lines 175-178, 202-205, 218-221: drop the byte at head and retry
Resync(st) == [st EXCEPT !.remains = 0, !.ring = cbc_ring_skips(st.ring, 1)]

\* AwaitFrame leaving the loop without recording the frame length
AwaitFrameBreak(st, frame_len) == [st EXCEPT !.remains = 0, !.run = FALSE]

\* AwaitFrame treating the incomplete frame as corrupt
AwaitFrameDrop(st, frame_len) ==
    [st EXCEPT !.remains = 0, !.ring = cbc_ring_skips(st.ring, 1)]

\* lines 208-211: fewer bytes than frame_len, wait for the rest of the frame
AwaitFrame(st, frame_len) == [st EXCEPT !.remains = frame_len]

\* AcceptFrame counting on without taking the sequence of the frame
AcceptFrameNoSeqSync(st, seq, frame_len, len) ==
    [st EXCEPT !.remains = 0,
               !.rx_seq_counter = (st.rx_seq_counter + 1) % (CBC_SEQ_MASK + 1),
               !.rx_q = ioc_build_request(st.ring, st.rx_q, frame_len, len),
               !.ring = cbc_ring_skips(st.ring, frame_len)]

\* lines 227-237: sequence check, request, drop of the frame
AcceptFrame(st, seq, frame_len, len) ==
    [st EXCEPT !.remains = 0,
               !.rx_seq_counter =
                   LET c == (st.rx_seq_counter + 1) % (CBC_SEQ_MASK + 1)
                   IN  IF c # seq THEN seq ELSE c,
               !.rx_q = ioc_build_request(st.ring, st.rx_q, frame_len, len),
               !.ring = cbc_ring_skips(st.ring, frame_len)]

\* BadChecksum leaving the loop without dropping a byte
BadChecksumNoResync(st) == [st EXCEPT !.remains = 0, !.run = FALSE]

\* lines 218-221 on a checksum mismatch
BadChecksum(st) == Resync(st)

\* one iteration of the for (;;) loop; run = FALSE is the break
UnpackIter(st) ==
    LET r == st.ring
        avalids == Avalids(r)
    IN
    IF avalids < CBC_MIN_FRAME_SIZE \/ avalids < st.remains
    THEN [st EXCEPT !.run = FALSE]
    ELSE IF r.buf[r.head] # CBC_SOF_VALUE
    THEN Resync(st)
    ELSE
    LET els == r.buf[RingMask(r.head + CBC_ELS_POS)]
        seq == Field(els, CBC_SEQ_OFFSET, CBC_SEQ_MASK)
        len == (Field(els, CBC_LEN_OFFSET, CBC_LEN_MASK) + 1) * 4
        frame_len == FrameLenOf(els)
        checksum == r.buf[RingMask(r.head + frame_len - 1)]
    IN
    IF frame_len > CBC_MAX_FRAME_SIZE
    THEN Resync(st)
    ELSE IF avalids < frame_len
    THEN AwaitFrame(st, frame_len)
    ELSE IF cbc_verify_chksum(r, frame_len - 1, checksum) # 0
    THEN BadChecksum(st)
    ELSE AcceptFrame(st, seq, frame_len, len)

\* the loop: UnpackIter applied until the break, at most 2^k times
RECURSIVE UnpackLoop(_, _)
UnpackLoop(st, k) ==
    IF ~st.run THEN st
    ELSE IF k = 0 THEN UnpackIter(st)
    ELSE UnpackLoop(UnpackLoop(st, k - 1), k - 1)

\* every iteration but the last two drops at least one of at most
\* CBC_RING_BUFFER_SIZE - 1 bytes: 2^LoopLog iterations are enough
LoopLog == 9

cbc_unpack_link(r, rem, seq, q) ==
    UnpackLoop([ring |-> r, remains |-> rem, rx_seq_counter |-> seq,
                rx_q |-> q, run |-> TRUE], LoopLog)

----------------------------------------------------------------------------
(* Framer.                                                                 *)

RECURSIVE FillFF(_, _, _)
FillFF(buf, i, n) ==
    IF i >= n THEN buf ELSE FillFF([buf EXCEPT ![i] = 255], i + 1, n)

\* cbc_fill_padding filling from size on, not from the checksum byte
cbc_fill_padding_from_size(buf, size, unit) ==
    LET left == size % unit
    IN  IF left # 0
        THEN [buf |-> FillFF(buf, size, size + unit - left),
              paddings |-> size + unit - left]
        ELSE [buf |-> buf, paddings |-> size]

cbc_fill_padding(buf, size, unit) ==
    LET left == size % unit
    IN  IF left # 0
        THEN [buf |-> FillFF(buf, size - CBC_CHKSUM_SIZE, size + unit - left),
              paddings |-> size + unit - left]
        ELSE [buf |-> buf, paddings |-> size]

\* ElsByte with the length field taken from srv_len / CBC_LEN_UNIT
ElsByteNoMinusOne(srv_len, tx_seq) ==
    (CBC_EXT_VALUE % (CBC_EXT_MASK + 1)) * Pow2(CBC_EXT_OFFSET)
    + (CDiv(srv_len, CBC_LEN_UNIT) % (CBC_LEN_MASK + 1)) * Pow2(CBC_LEN_OFFSET)
    + (tx_seq % (CBC_SEQ_MASK + 1)) * Pow2(CBC_SEQ_OFFSET)

\* lines 461-468: extension bits, frame length bits and tx sequence bits
ElsByte(srv_len, tx_seq) ==
    (CBC_EXT_VALUE % (CBC_EXT_MASK + 1)) * Pow2(CBC_EXT_OFFSET)
    + (CDiv(srv_len - 1, CBC_LEN_UNIT) % (CBC_LEN_MASK + 1))
          * Pow2(CBC_LEN_OFFSET)
    + (tx_seq % (CBC_SEQ_MASK + 1)) * Pow2(CBC_SEQ_OFFSET)

\* cbc_pack_link counting a rejected request as a frame
cbc_pack_link_count_rejected(req, tx_seq) ==
    IF req.srv_len > CBC_MAX_SERVICE_SIZE
    THEN [req |-> req, tx_seq_counter |-> (tx_seq + 1) % (CBC_SEQ_MASK + 1)]
    ELSE
    LET pad == cbc_fill_padding(req.buf,
                   req.srv_len + CBC_ADDR_HDR_SIZE + CBC_LINK_HDR_SIZE,
                   CBC_GRANULARITY)
        len == pad.paddings
        els == ElsByte(req.srv_len, tx_seq)
        b1 == [pad.buf EXCEPT ![CBC_SOF_POS] = CBC_SOF_VALUE,
                              ![CBC_ELS_POS] = els]
        checksum == cbc_cal_chksum(b1, len - 1)
    IN  [req |-> [req EXCEPT !.buf = [b1 EXCEPT ![len - 1] = checksum % 256],
                             !.link_len = len],
         tx_seq_counter |-> (tx_seq + 1) % (CBC_SEQ_MASK + 1)]

\* returns the request and the transmit sequence counter after the call
cbc_pack_link(req, tx_seq) ==
    IF req.srv_len > CBC_MAX_SERVICE_SIZE
    THEN [req |-> req, tx_seq_counter |-> tx_seq]
    ELSE
    LET pad == cbc_fill_padding(req.buf,
                   req.srv_len + CBC_ADDR_HDR_SIZE + CBC_LINK_HDR_SIZE,
                   CBC_GRANULARITY)
        len == pad.paddings
        els == ElsByte(req.srv_len, tx_seq)
        b1 == [pad.buf EXCEPT ![CBC_SOF_POS] = CBC_SOF_VALUE,
                              ![CBC_ELS_POS] = els]
        checksum == cbc_cal_chksum(b1, len - 1)
    IN  [req |-> [req EXCEPT !.buf = [b1 EXCEPT ![len - 1] = checksum % 256],
                             !.link_len = len],
         tx_seq_counter |-> (tx_seq + 1) % (CBC_SEQ_MASK + 1)]

cbc_pack_address(req) ==
    LET mux == req.id
        prio == IF mux \in {IOC_NATIVE_PMT, IOC_NATIVE_LFCC,
                            IOC_NATIVE_SIGNAL, IOC_NATIVE_DLT}
                THEN CBC_PRIO_HIGH
                ELSE IF mux = IOC_NATIVE_DIAG THEN CBC_PRIO_LOW
                ELSE CBC_PRIO_MEDIUM
    IN  [req EXCEPT !.buf[CBC_ADDR_POS] =
            (mux % (CBC_MUX_MASK + 1)) * Pow2(CBC_MUX_OFFSET)
            + (prio % (CBC_PRIO_MASK + 1)) * Pow2(CBC_PRIO_OFFSET)]

\* bytes data[from .. from + len - 1] as a sequence
Bytes(buf, from, len) == [i \in 1..len |-> buf[from + i - 1]]

\* cbc_send_pkt: returns the request, the counter and the ioc_ch_xmit call
cbc_send_pkt(req, tx_seq) ==
    IF req.link_len = 0
    THEN LET p == cbc_pack_link(cbc_pack_address(req), tx_seq)
         IN  [req |-> p.req, tx_seq_counter |-> p.tx_seq_counter,
              xmit |-> <<[id |-> IOC_VIRTUAL_UART,
                          data |-> Bytes(p.req.buf, 0, p.req.link_len)]>>]
    ELSE [req |-> req, tx_seq_counter |-> tx_seq,
          xmit |-> <<[id |-> req.id,
                      data |-> Bytes(req.buf, CBC_SRV_POS, req.srv_len)]>>]

----------------------------------------------------------------------------
(* Service layer.  A session s holds what the handlers read and write:     *)
(* pkt (with the request it points to), tx_seq_counter, is_active,         *)
(* cbc_sig_tbl, cbc_grp_tbl and xmit, the ioc_ch_xmit calls made so far.   *)

CBC_QUEUE_T_FREE == 2
CBC_INACTIVE == 0
CBC_ACTIVE == 1
CBC_INVAL_T_SIGNAL == 0
CBC_INVAL_T_GROUP == 1
CBC_SC_WK_RSN == 1
CBC_SC_HB == 2
CBC_HB_SD_PREP == 0
CBC_HB_ACTIVE == 1
CBC_HB_SD_DLY == 2
CBC_HB_INITIAL == 3
CBC_HB_STANDBY == 4
CBC_HB_DIAG == 5
CBC_SD_SINGLE_SIGNAL == 1
CBC_SD_MULTI_SIGNAL == 2
CBC_SD_GROUP_SIGNAL == 3
CBC_SD_INVAL_SSIG == 4
CBC_SD_INVAL_MSIG == 5
CBC_SD_INVAL_SGRP == 6
CBC_SD_INVAL_MGRP == 7
CBC_SD_OPEN_CHANNEL == 253
CBC_SD_RESET_CHANNEL == 254
CBC_SD_CLOSE_CHANNEL == 255
CBC_WK_RSN_SOC == 8388608
CBC_WK_RSN_ALL == 16777215

\* payload[i] with payload = pkt->req->buf + CBC_PAYLOAD_POS
Payload(req, i) == req.buf[CBC_PAYLOAD_POS + i]

\* payload[i] | payload[i + 1] << 8 as uint16_t
Id16(req, i) == Payload(req, i) + Payload(req, i + 1) * 256

\* index of the first table entry with this id, 0 for NULL
cbc_find_signal(id, table) ==
    LET m == {i \in 1..Len(table) : table[i].id = id}
    IN  IF m = {} THEN 0 ELSE CHOOSE i \in m : \A j \in m : i <= j

cbc_find_signal_group(id, table) ==
    LET m == {i \in 1..Len(table) : table[i].id = id}
    IN  IF m = {} THEN 0 ELSE CHOOSE i \in m : \A j \in m : i <= j

cbc_get_signal_len(id, table) ==
    LET p == cbc_find_signal(id, table)
    IN  IF p = 0 THEN 0 ELSE (table[p].len + 7) \div 8

cbc_disable_signal(id, table) ==
    LET p == cbc_find_signal(id, table)
    IN  IF p # 0 THEN [table EXCEPT ![p].flag = CBC_INACTIVE] ELSE table

cbc_disable_signal_group(id, table) ==
    LET p == cbc_find_signal_group(id, table)
    IN  IF p # 0 THEN [table EXCEPT ![p].flag = CBC_INACTIVE] ELSE table

\* the whitelist verifications return 0 for every id
wlist_verify_signal(id) == 0

wlist_verify_group(id) == 0

\* the ids payload[i * 2 + 2] | payload[i * 2 + 3] << 8 for i < num
InvalIds(req, num) == {Id16(req, i * 2 + 2) : i \in 0..(num - 1)}

\* cbc_set_invalidation rejecting only a count past the service size
cbc_set_invalidation_gt(s, type) ==
    LET num == Payload(s.pkt.req, 1)
        ids == InvalIds(s.pkt.req, num)
    IN  IF (num * 2 + 2) > CBC_MAX_SERVICE_SIZE
        THEN s
        ELSE IF type = CBC_INVAL_T_SIGNAL
        THEN [s EXCEPT !.cbc_sig_tbl =
                [k \in 1..Len(s.cbc_sig_tbl) |->
                    IF \E id \in ids : cbc_find_signal(id, s.cbc_sig_tbl) = k
                    THEN [s.cbc_sig_tbl[k] EXCEPT !.flag = CBC_INACTIVE]
                    ELSE s.cbc_sig_tbl[k]]]
        ELSE IF type = CBC_INVAL_T_GROUP
        THEN [s EXCEPT !.cbc_grp_tbl =
                [k \in 1..Len(s.cbc_grp_tbl) |->
                    IF \E id \in ids :
                          cbc_find_signal_group(id, s.cbc_grp_tbl) = k
                    THEN [s.cbc_grp_tbl[k] EXCEPT !.flag = CBC_INACTIVE]
                    ELSE s.cbc_grp_tbl[k]]]
        ELSE s

cbc_set_invalidation(s, type) ==
    LET num == Payload(s.pkt.req, 1)
        ids == InvalIds(s.pkt.req, num)
    IN  IF (num * 2 + 2) >= CBC_MAX_SERVICE_SIZE
        THEN s
        ELSE IF type = CBC_INVAL_T_SIGNAL
        THEN [s EXCEPT !.cbc_sig_tbl =
                [k \in 1..Len(s.cbc_sig_tbl) |->
                    IF \E id \in ids : cbc_find_signal(id, s.cbc_sig_tbl) = k
                    THEN [s.cbc_sig_tbl[k] EXCEPT !.flag = CBC_INACTIVE]
                    ELSE s.cbc_sig_tbl[k]]]
        ELSE IF type = CBC_INVAL_T_GROUP
        THEN [s EXCEPT !.cbc_grp_tbl =
                [k \in 1..Len(s.cbc_grp_tbl) |->
                    IF \E id \in ids :
                          cbc_find_signal_group(id, s.cbc_grp_tbl) = k
                    THEN [s.cbc_grp_tbl[k] EXCEPT !.flag = CBC_INACTIVE]
                    ELSE s.cbc_grp_tbl[k]]]
        ELSE s

\* SendPkt packing the link header before the address header
SendPktLinkFirst(s) ==
    LET req == s.pkt.req
        p == cbc_pack_link(req, s.tx_seq_counter)
        q == cbc_pack_address(p.req)
        r == IF req.link_len = 0
             THEN [req |-> q, tx_seq_counter |-> p.tx_seq_counter,
                   xmit |-> <<[id |-> IOC_VIRTUAL_UART,
                               data |-> Bytes(q.buf, 0, q.link_len)]>>]
             ELSE cbc_send_pkt(req, s.tx_seq_counter)
    IN  [s EXCEPT !.pkt.req = r.req,
                  !.tx_seq_counter = r.tx_seq_counter,
                  !.xmit = s.xmit \o r.xmit]

\* cbc_send_pkt on the request of the session
SendPkt(s) ==
    LET r == cbc_send_pkt(s.pkt.req, s.tx_seq_counter)
    IN  [s EXCEPT !.pkt.req = r.req,
                  !.tx_seq_counter = r.tx_seq_counter,
                  !.xmit = s.xmit \o r.xmit]

\* return code of the i-th call of wlist_verify_signal in a scan; rc gives
\* the codes of the first Len(rc) calls when the verdicts are an input
Verdict(rc, i, id) ==
    IF i + 1 \in DOMAIN rc THEN rc[i + 1] ELSE wlist_verify_signal(id)

\* ScanEntry counting an accepted entry without moving it
ScanEntryNoCopy(c, tbl, rc, i) ==
    LET id == c.buf[CBC_PAYLOAD_POS + c.offset]
              + c.buf[CBC_PAYLOAD_POS + c.offset + 1] * 256
        signal_len == cbc_get_signal_len(id, tbl) + 2
        kept == IF Verdict(rc, i, id) = 0
                THEN [c EXCEPT !.num = (c.num + 1) % 256,
                               !.valids = c.valids + signal_len]
                ELSE c
    IN  [kept EXCEPT !.offset = c.offset + signal_len,
                     !.abort = c.offset + signal_len + 1 > CBC_MAX_SERVICE_SIZE]

\* ScanEntry moving the write cursor one byte too far
ScanEntryWideValids(c, tbl, rc, i) ==
    LET id == c.buf[CBC_PAYLOAD_POS + c.offset]
              + c.buf[CBC_PAYLOAD_POS + c.offset + 1] * 256
        signal_len == cbc_get_signal_len(id, tbl) + 2
        kept == IF Verdict(rc, i, id) = 0
                THEN [c EXCEPT
                        !.num = (c.num + 1) % 256,
                        !.buf = IF c.valids < c.offset
                                THEN [k \in DOMAIN c.buf |->
                                        IF /\ k >= CBC_PAYLOAD_POS + c.valids
                                           /\ k < CBC_PAYLOAD_POS + c.valids
                                                  + signal_len
                                        THEN c.buf[k - c.valids + c.offset]
                                        ELSE c.buf[k]]
                                ELSE c.buf,
                        !.valids = c.valids + signal_len + 1]
                ELSE c
    IN  [kept EXCEPT !.offset = c.offset + signal_len,
                     !.abort = c.offset + signal_len + 1 > CBC_MAX_SERVICE_SIZE]

\* ScanEntry without the safety check of lines 406-410
ScanEntryNoAbort(c, tbl, rc, i) ==
    LET id == c.buf[CBC_PAYLOAD_POS + c.offset]
              + c.buf[CBC_PAYLOAD_POS + c.offset + 1] * 256
        signal_len == cbc_get_signal_len(id, tbl) + 2
        kept == IF Verdict(rc, i, id) = 0
                THEN [c EXCEPT
                        !.num = (c.num + 1) % 256,
                        !.buf = IF c.valids < c.offset
                                THEN [k \in DOMAIN c.buf |->
                                        IF /\ k >= CBC_PAYLOAD_POS + c.valids
                                           /\ k < CBC_PAYLOAD_POS + c.valids
                                                  + signal_len
                                        THEN c.buf[k - c.valids + c.offset]
                                        ELSE c.buf[k]]
                                ELSE c.buf,
                        !.valids = c.valids + signal_len]
                ELSE c
    IN  [kept EXCEPT !.offset = c.offset + signal_len]

\* lines 386-410: one entry of the scan, c = [buf, offset, valids, num, abort]
ScanEntry(c, tbl, rc, i) ==
    LET id == c.buf[CBC_PAYLOAD_POS + c.offset]
              + c.buf[CBC_PAYLOAD_POS + c.offset + 1] * 256
        signal_len == cbc_get_signal_len(id, tbl) + 2
        kept == IF Verdict(rc, i, id) = 0
                THEN [c EXCEPT
                        !.num = (c.num + 1) % 256,
                        !.buf = IF c.valids < c.offset
                                THEN [k \in DOMAIN c.buf |->
                                        IF /\ k >= CBC_PAYLOAD_POS + c.valids
                                           /\ k < CBC_PAYLOAD_POS + c.valids
                                                  + signal_len
                                        THEN c.buf[k - c.valids + c.offset]
                                        ELSE c.buf[k]]
                                ELSE c.buf,
                        !.valids = c.valids + signal_len]
                ELSE c
    IN  [kept EXCEPT !.offset = c.offset + signal_len,
                     !.abort = c.offset + signal_len + 1 > CBC_MAX_SERVICE_SIZE]

RECURSIVE ScanSignals(_, _, _, _)
\* lines 385-411: for (i = 0; i < payload[0]; i++)
ScanSignals(c, tbl, rc, i) ==
    IF c.abort \/ i >= c.buf[CBC_PAYLOAD_POS]
    THEN c
    ELSE ScanSignals(ScanEntry(c, tbl, rc, i), tbl, rc, i + 1)

\* cbc_forward_signals with the whitelist return codes rc
ForwardSignals(s, rc) ==
    LET c == ScanSignals([buf |-> s.pkt.req.buf, offset |-> 1, valids |-> 1,
                          num |-> 0, abort |-> FALSE],
                         s.cbc_sig_tbl, rc, 0)
        s1 == [s EXCEPT !.pkt.req.buf = c.buf]
    IN  IF c.abort \/ c.num = 0
        THEN s1
        ELSE SendPkt([s1 EXCEPT
                 !.pkt.req.buf[CBC_PAYLOAD_POS] = c.num,
                 !.pkt.req.buf[CBC_SRV_POS] = CBC_SD_MULTI_SIGNAL,
                 !.pkt.req.srv_len = c.valids + CBC_SRV_HDR_SIZE])

cbc_forward_signals(s) == ForwardSignals(s, <<>>)

\* cbc_update_heartbeat routing a request on every command
cbc_update_heartbeat_always(s, cmd, sus_action) ==
    LET stat == IF cmd \in {CBC_HB_ACTIVE, CBC_HB_STANDBY, CBC_HB_INITIAL}
                THEN 1 ELSE 0
    IN  [s EXCEPT !.pkt.qtype = CBC_QUEUE_T_TX,
                  !.pkt.req.rtype = CBC_REQ_T_SOC,
                  !.pkt.req.buf[0] = stat,
                  !.pkt.hb_state = stat]

cbc_update_heartbeat(s, cmd, sus_action) ==
    LET stat == IF cmd \in {CBC_HB_ACTIVE, CBC_HB_STANDBY, CBC_HB_INITIAL}
                THEN 1 ELSE 0
    IN  IF stat # s.pkt.hb_state
        THEN [s EXCEPT !.pkt.qtype = CBC_QUEUE_T_TX,
                       !.pkt.req.rtype = CBC_REQ_T_SOC,
                       !.pkt.req.buf[0] = stat,
                       !.pkt.hb_state = stat]
        ELSE s

\* reason | CBC_WK_RSN_SOC and reason & ~CBC_WK_RSN_SOC on uint32_t
SocBit(reason) == (reason \div CBC_WK_RSN_SOC) % 2

\* cbc_update_wakeup_reason leaving a pending boot reason in place
cbc_update_wakeup_reason_keep_boot(s, reason) ==
    LET active == s.pkt.soc_active # 0
        boot == s.pkt.boot_reason
        r1 == IF active
              THEN reason + (1 - SocBit(reason)) * CBC_WK_RSN_SOC
              ELSE reason - SocBit(reason) * CBC_WK_RSN_SOC
        r2 == r1 % (CBC_WK_RSN_ALL + 1)
        r == IF boot # 0 THEN boot ELSE r2
    IN  SendPkt([s EXCEPT
            !.pkt.reason = r,
            !.pkt.req.buf[CBC_PAYLOAD_POS] = r % 256,
            !.pkt.req.buf[CBC_PAYLOAD_POS + 1] = (r \div 256) % 256,
            !.pkt.req.buf[CBC_PAYLOAD_POS + 2] = (r \div 65536) % 256,
            !.pkt.req.id = IOC_NATIVE_LFCC,
            !.pkt.req.buf[CBC_SRV_POS] = CBC_SC_WK_RSN,
            !.pkt.req.srv_len = 4,
            !.pkt.req.link_len = 0])

cbc_update_wakeup_reason(s, reason) ==
    LET active == s.pkt.soc_active # 0
        boot == IF active THEN 0 ELSE s.pkt.boot_reason
        r1 == IF active
              THEN reason + (1 - SocBit(reason)) * CBC_WK_RSN_SOC
              ELSE reason - SocBit(reason) * CBC_WK_RSN_SOC
        r2 == r1 % (CBC_WK_RSN_ALL + 1)
        r == IF boot # 0 THEN boot ELSE r2
    IN  SendPkt([s EXCEPT
            !.pkt.boot_reason = boot,
            !.pkt.reason = r,
            !.pkt.req.buf[CBC_PAYLOAD_POS] = r % 256,
            !.pkt.req.buf[CBC_PAYLOAD_POS + 1] = (r \div 256) % 256,
            !.pkt.req.buf[CBC_PAYLOAD_POS + 2] = (r \div 65536) % 256,
            !.pkt.req.id = IOC_NATIVE_LFCC,
            !.pkt.req.buf[CBC_SRV_POS] = CBC_SC_WK_RSN,
            !.pkt.req.srv_len = 4,
            !.pkt.req.link_len = 0])

cbc_process_lifecycle(s) ==
    LET cmd == s.pkt.req.buf[CBC_SRV_POS]
    IN  IF cmd = CBC_SC_WK_RSN
        THEN cbc_update_wakeup_reason(s,
                 Payload(s.pkt.req, 0) + Payload(s.pkt.req, 1) * 256
                 + Payload(s.pkt.req, 2) * 65536)
        ELSE IF cmd = CBC_SC_HB
        THEN cbc_update_heartbeat(s, Payload(s.pkt.req, 0),
                                  Payload(s.pkt.req, 1))
        ELSE s

\* cbc_process_signal holding back what comes from the IOC instead
cbc_process_signal_ungated(s) ==
    LET cmd == s.pkt.req.buf[CBC_SRV_POS]
        id == Id16(s.pkt.req, 0)
    IN  IF /\ s.pkt.req.link_len # 0
           /\ s.is_active = FALSE
           /\ cmd \in {CBC_SD_SINGLE_SIGNAL, CBC_SD_MULTI_SIGNAL,
                       CBC_SD_GROUP_SIGNAL}
        THEN s
        ELSE CASE cmd = CBC_SD_SINGLE_SIGNAL ->
                    IF wlist_verify_signal(id) = 0 THEN SendPkt(s) ELSE s
               [] cmd = CBC_SD_MULTI_SIGNAL -> cbc_forward_signals(s)
               [] cmd = CBC_SD_GROUP_SIGNAL ->
                    IF wlist_verify_group(id) = 0 THEN SendPkt(s) ELSE s
               [] cmd = CBC_SD_INVAL_SSIG ->
                    [s EXCEPT !.cbc_sig_tbl =
                        cbc_disable_signal(id, s.cbc_sig_tbl)]
               [] cmd = CBC_SD_INVAL_MSIG ->
                    cbc_set_invalidation(s, CBC_INVAL_T_SIGNAL)
               [] cmd = CBC_SD_INVAL_SGRP ->
                    [s EXCEPT !.cbc_grp_tbl =
                        cbc_disable_signal_group(id, s.cbc_grp_tbl)]
               [] cmd = CBC_SD_INVAL_MGRP ->
                    cbc_set_invalidation(s, CBC_INVAL_T_GROUP)
               [] cmd \in {CBC_SD_OPEN_CHANNEL, CBC_SD_RESET_CHANNEL} ->
                    [s EXCEPT !.is_active = TRUE]
               [] cmd = CBC_SD_CLOSE_CHANNEL ->
                    [s EXCEPT !.is_active = FALSE]
               [] OTHER -> s

cbc_process_signal(s) ==
    LET cmd == s.pkt.req.buf[CBC_SRV_POS]
        id == Id16(s.pkt.req, 0)
    IN  IF /\ s.pkt.req.link_len = 0
           /\ s.is_active = FALSE
           /\ cmd \in {CBC_SD_SINGLE_SIGNAL, CBC_SD_MULTI_SIGNAL,
                       CBC_SD_GROUP_SIGNAL}
        THEN s
        ELSE CASE cmd = CBC_SD_SINGLE_SIGNAL ->
                    IF wlist_verify_signal(id) = 0 THEN SendPkt(s) ELSE s
               [] cmd = CBC_SD_MULTI_SIGNAL -> cbc_forward_signals(s)
               [] cmd = CBC_SD_GROUP_SIGNAL ->
                    IF wlist_verify_group(id) = 0 THEN SendPkt(s) ELSE s
               [] cmd = CBC_SD_INVAL_SSIG ->
                    [s EXCEPT !.cbc_sig_tbl =
                        cbc_disable_signal(id, s.cbc_sig_tbl)]
               [] cmd = CBC_SD_INVAL_MSIG ->
                    cbc_set_invalidation(s, CBC_INVAL_T_SIGNAL)
               [] cmd = CBC_SD_INVAL_SGRP ->
                    [s EXCEPT !.cbc_grp_tbl =
                        cbc_disable_signal_group(id, s.cbc_grp_tbl)]
               [] cmd = CBC_SD_INVAL_MGRP ->
                    cbc_set_invalidation(s, CBC_INVAL_T_GROUP)
               [] cmd \in {CBC_SD_OPEN_CHANNEL, CBC_SD_RESET_CHANNEL} ->
                    [s EXCEPT !.is_active = TRUE]
               [] cmd = CBC_SD_CLOSE_CHANNEL ->
                    [s EXCEPT !.is_active = FALSE]
               [] OTHER -> s

\* IsRaw taking every channel up to the last raw one
IsRawOrBelow(id) == id <= IOC_NATIVE_RAW11

IsRaw(id) == id >= IOC_NATIVE_RAW0 /\ id <= IOC_NATIVE_RAW11

cbc_rx_handler(s) ==
    IF s.pkt.req.rtype # CBC_REQ_T_PROT
    THEN s
    ELSE LET mux == Field(s.pkt.req.buf[CBC_ADDR_POS], CBC_MUX_OFFSET,
                          CBC_MUX_MASK)
             s1 == [s EXCEPT !.pkt.req.id = mux]
         IN  IF mux = IOC_NATIVE_LFCC THEN cbc_process_lifecycle(s1)
             ELSE IF mux = IOC_NATIVE_SIGNAL THEN cbc_process_signal(s1)
             ELSE IF IsRaw(mux) THEN SendPkt(s1)
             ELSE s1

\* cbc_tx_handler broadcasting without taking the state of the request
cbc_tx_handler_stale_soc(s) ==
    IF s.pkt.req.rtype = CBC_REQ_T_PROT
    THEN IF s.pkt.req.id = IOC_NATIVE_LFCC THEN cbc_process_lifecycle(s)
         ELSE IF s.pkt.req.id = IOC_NATIVE_SIGNAL THEN cbc_process_signal(s)
         ELSE IF IsRaw(s.pkt.req.id) THEN SendPkt(s)
         ELSE s
    ELSE IF s.pkt.req.rtype = CBC_REQ_T_SOC
    THEN cbc_update_wakeup_reason(s, s.pkt.reason)
    ELSE s

cbc_tx_handler(s) ==
    IF s.pkt.req.rtype = CBC_REQ_T_PROT
    THEN IF s.pkt.req.id = IOC_NATIVE_LFCC THEN cbc_process_lifecycle(s)
         ELSE IF s.pkt.req.id = IOC_NATIVE_SIGNAL THEN cbc_process_signal(s)
         ELSE IF IsRaw(s.pkt.req.id) THEN SendPkt(s)
         ELSE s
    ELSE IF s.pkt.req.rtype = CBC_REQ_T_SOC
    THEN cbc_update_wakeup_reason(
             [s EXCEPT !.pkt.soc_active = s.pkt.req.buf[0]], s.pkt.reason)
    ELSE s

----------------------------------------------------------------------------
(* Configuration and initial state.                                        *)

\* signal and group tables of the configuration: id, len in bits, flag
SigTblInit ==
    <<[id |-> 257, len |-> 8, flag |-> CBC_ACTIVE],
      [id |-> 2, len |-> 10, flag |-> CBC_ACTIVE],
      [id |-> 3, len |-> 1, flag |-> CBC_ACTIVE]>>

GrpTblInit ==
    <<[id |-> 1, flag |-> CBC_ACTIVE], [id |-> 2, flag |-> CBC_ACTIVE]>>

\* the frame cbc_send_pkt puts on the virtual UART for service frame srv
Wire(id, srv, seq) ==
    cbc_send_pkt(MkReq(CBC_REQ_T_PROT, id, srv, 0), seq).xmit[1].data

\* the receive side after n minimal frames arrived in one read of the
\* virtual UART, were unpacked and their requests dequeued
RxAfter(n) ==
    LET fresh == [head |-> 0, tail |-> 0,
                  buf |-> [i \in 0..(CBC_RING_BUFFER_SIZE - 1) |-> 0]]
        bytes == [j \in 1..(n * CBC_MIN_FRAME_SIZE) |->
                    Wire(IOC_NATIVE_RAW0, <<1>>,
                         ((j - 1) \div CBC_MIN_FRAME_SIZE) % (CBC_SEQ_MASK + 1))
                        [((j - 1) % CBC_MIN_FRAME_SIZE) + 1]]
        u == cbc_unpack_link(cbc_copy_to_ring(bytes, fresh).ring, 0, 0, <<>>)
    IN  [ring |-> u.ring, remains |-> u.remains,
         rx_seq_counter |-> u.rx_seq_counter]

\* frames already received when the model starts: 0, or enough for the
\* next frame to wrap around the end of the ring
WarmFrames == 31

NoOp == [name |-> "init"]
NoScn == [kind |-> "none"]

InitRx(n) ==
    /\ ring = RxAfter(n).ring
    /\ remains = RxAfter(n).remains
    /\ rx_seq_counter = RxAfter(n).rx_seq_counter
    /\ rx_q = <<>>

\* the packet of a thread: memset to 0, then boot_reason
InitPkt(boot) ==
    [req |-> MkReq(CBC_REQ_T_PROT, 0, <<>>, 0),
     qtype |-> CBC_QUEUE_T_FREE, hb_state |-> 0, soc_active |-> 0,
     reason |-> 0, boot_reason |-> boot]

InitSvc ==
    /\ pkt = InitPkt(0)
    /\ tx_seq_counter = 0
    /\ is_active = FALSE
    /\ cbc_sig_tbl = SigTblInit
    /\ cbc_grp_tbl = GrpTblInit
    /\ xmit = <<>>
    /\ tx_q = <<>>

Init ==
    /\ \E n \in {0, WarmFrames} : InitRx(n)
    /\ InitSvc
    /\ op = NoOp
    /\ scn = NoScn
    /\ ncalls = 0

----------------------------------------------------------------------------
(* Receive path under arbitrary input: any interleaving of                 *)
(* cbc_copy_to_ring and cbc_unpack_link.                                   *)

MaxAppends == 3

Run(b, n) == [i \in 1..n |-> b]

\* a frame whose trailing checksum byte is off by one
BadChk(f) == [f EXCEPT ![Len(f)] = (f[Len(f)] + 1) % 256]

RingChunks ==
    {Run(CBC_SOF_VALUE, 1), Run(0, 127), Run(CBC_SOF_VALUE, 128)}
    \cup {Wire(IOC_NATIVE_RAW0, <<1>>, 0),
          Wire(IOC_NATIVE_SIGNAL, <<1, 2, 3, 4, 5>>, 1),
          BadChk(Wire(IOC_NATIVE_RAW0, <<1>>, 0)),
          \* length field 31: frame_len 132 exceeds CBC_MAX_FRAME_SIZE
          <<CBC_SOF_VALUE, 124, 0, 0, 0, 0, 0, 0>>,
          \* length field 22: the first 8 bytes of a 96 byte frame
          <<CBC_SOF_VALUE, 88, 0, 0, 0, 0, 0, 0>>}

CopyToRing(bytes) ==
    \E res \in {cbc_copy_to_ring(bytes, ring)} :
        /\ ring' = res.ring
        /\ op' = [name |-> "copy", avail |-> Avalids(ring), rc |-> res.rc,
                  bytes |-> bytes]
        /\ UNCHANGED <<remains, rx_seq_counter, rx_q>>

UnpackLink ==
    \E u \in {cbc_unpack_link(ring, remains, rx_seq_counter, rx_q)} :
        /\ ring' = u.ring
        /\ remains' = u.remains
        /\ rx_seq_counter' = u.rx_seq_counter
        /\ rx_q' = u.rx_q
        /\ op' = [name |-> "unpack", avail |-> Avalids(ring),
                  sof |-> ring.buf[ring.head] = CBC_SOF_VALUE,
                  emitted |-> Len(u.rx_q) - Len(rx_q)]

Feed ==
    /\ ncalls < MaxAppends
    /\ \E bytes \in RingChunks : CopyToRing(bytes)
    /\ ncalls' = ncalls + 1
    /\ UNCHANGED <<svcVars, scn>>

Unpack ==
    /\ UnpackLink
    /\ UNCHANGED <<svcVars, scn, ncalls>>

Next == Feed \/ Unpack

Spec == Init /\ [][Next]_vars

----------------------------------------------------------------------------
(* Ring occupancy and progress on a full ring.                             *)

IsPrefix(s, t) == Len(s) <= Len(t) /\ \A i \in 1..Len(s) : s[i] = t[i]

IsSuffix(s, t) ==
    Len(s) <= Len(t) /\ \A i \in 1..Len(s) : s[i] = t[Len(t) - Len(s) + i]

\* the bytes of an input that a call with this much free space stores
Stored(bytes, free) ==
    [i \in 1..(IF Len(bytes) <= free THEN Len(bytes) ELSE free) |-> bytes[i]]

\* C4: an append leaves every unread byte in place and adds the stored input
\* bytes behind them, so the occupied count (tail - head) mod C grows by the
\* number of bytes stored and never passes C - 1; an unpack only drops bytes
\* from the front, never more than are occupied.
RingOccupancy ==
    [][/\ Avalids(ring') \in 0..(CBC_RING_BUFFER_SIZE - 1)
       /\ op'.name = "copy" =>
            RingContent(ring') = RingContent(ring) \o
                Stored(op'.bytes, CBC_RING_BUFFER_SIZE - 1 - Avalids(ring))
       /\ op'.name = "unpack" =>
            IsSuffix(RingContent(ring'), RingContent(ring))]_vars

\* an append reached a ring with less free space than it had bytes
RingOccupancyWitness ==
    /\ op.name = "copy"
    /\ op.rc = -1
    /\ op.avail > 0
    /\ Avalids(ring) = CBC_RING_BUFFER_SIZE - 1
    /\ ring.tail < ring.head

\* C5: a call of cbc_unpack_link on a full ring leaves fewer bytes in it
FullRingProgress ==
    (op.name = "unpack" /\ op.avail = CBC_RING_BUFFER_SIZE - 1)
        => Avalids(ring) < CBC_RING_BUFFER_SIZE - 1

\* cbc_unpack_link ran on a full ring whose head was a start-of-frame byte
FullRingWitness ==
    /\ op.name = "unpack"
    /\ op.avail = CBC_RING_BUFFER_SIZE - 1
    /\ op.sof
    /\ Avalids(ring) > 0

----------------------------------------------------------------------------
(* Framing scenarios: a request is sent by cbc_send_pkt and the bytes it   *)
(* put on the virtual UART come back through cbc_copy_to_ring and          *)
(* cbc_unpack_link: whole, cut in two reads, behind one stray byte, or     *)
(* with one bit flipped on the line.                                       *)

\* a service frame of n bytes: command byte, then payload
Pattern(n) == [i \in 1..n |-> (i * 37 + 11) % 256]

\* every channel of enum ioc_ch_id that carries CBC frames
ChannelIds == IOC_NATIVE_PMT..IOC_NATIVE_RAW11

\* one channel of each priority class, for the bit flips
FlipIds ==
    {IOC_NATIVE_PMT, IOC_NATIVE_SIGNAL, IOC_NATIVE_DIAG, IOC_NATIVE_RAW11}

\* requests sent whole: every service length, every channel class
WholeReqs ==
    {MkReq(CBC_REQ_T_PROT, id, Pattern(n), 0) :
        id \in ChannelIds, n \in 1..CBC_MAX_SERVICE_SIZE}

\* service frames of the cut, stray byte and bit flip scenarios
ShortSrvs ==
    {Pattern(1), Pattern(4), Pattern(5), Pattern(9),
     <<CBC_SOF_VALUE, CBC_SOF_VALUE, CBC_SOF_VALUE, CBC_SOF_VALUE,
       CBC_SOF_VALUE>>}

CutReqs ==
    {MkReq(CBC_REQ_T_PROT, IOC_NATIVE_SIGNAL, srv, 0) :
        srv \in ShortSrvs \cup {Pattern(CBC_MAX_SERVICE_SIZE)}}

FrameReqs == WholeReqs \cup CutReqs

StrayBytes == {0, CBC_SOF_VALUE, 255}

\* x with bit b inverted
FlipBit(x, b) ==
    IF (x \div Pow2(b)) % 2 = 1 THEN x - Pow2(b) ELSE x + Pow2(b)

SubSeqOf(s, m, n) == [i \in 1..(n - m + 1) |-> s[m + i - 1]]

InitFrame ==
    /\ \E n \in {0, WarmFrames} : InitRx(n)
    /\ InitSvc
    /\ op = NoOp
    /\ scn = NoScn
    /\ ncalls = 0

FrameSend ==
    /\ op.name = "init"
    /\ \E q \in FrameReqs, k \in 0..CBC_SEQ_MASK :
         \* k earlier sends have advanced the transmit sequence counter
         \E res \in {cbc_send_pkt(q, k)} :
            /\ pkt' = [pkt EXCEPT !.req = res.req]
            /\ tx_seq_counter' = res.tx_seq_counter
            /\ xmit' = res.xmit
            /\ op' = [name |-> "send", req |-> q]
    /\ UNCHANGED <<rxVars, is_active, cbc_sig_tbl, cbc_grp_tbl, tx_q, scn,
                   ncalls>>

\* the scenarios for the frame on the wire
Scenarios(q, wire) ==
    {[kind |-> "whole", stream |-> wire, cut |-> Len(wire)]}
    \cup (IF q \in CutReqs
          THEN {[kind |-> "cut", stream |-> wire, cut |-> c] :
                    c \in 1..(Len(wire) - 1)}
               \cup {[kind |-> "stray", stream |-> <<g>> \o wire,
                      cut |-> Len(wire) + 1] : g \in StrayBytes}
          ELSE {})
    \cup (IF q.srv_len \in {1, 5} /\ q.id \in FlipIds
          THEN {[kind |-> "flip",
                 stream |-> [wire EXCEPT ![i + 1] = FlipBit(wire[i + 1], b)],
                 cut |-> Len(wire)] :
                    i \in 0..(Len(wire) - 2), b \in 0..7}
          ELSE {})

FrameFeedFirst ==
    /\ op.name = "send"
    /\ \E sc \in Scenarios(op.req, xmit[1].data) :
         /\ scn' = [kind |-> sc.kind, stream |-> sc.stream, cut |-> sc.cut,
                    req |-> op.req, wire |-> xmit[1].data, phase |-> "fed1",
                    start |-> [ring |-> ring, remains |-> remains,
                               rx_seq_counter |-> rx_seq_counter,
                               rx_q |-> rx_q]]
         /\ CopyToRing(SubSeqOf(sc.stream, 1, sc.cut))
    /\ ncalls' = ncalls + 1
    /\ UNCHANGED svcVars

FrameUnpackFirst ==
    /\ scn.kind # "none" /\ scn.phase = "fed1"
    /\ UnpackLink
    /\ scn' = [scn EXCEPT !.phase = "unpacked1"]
    /\ UNCHANGED <<svcVars, ncalls>>

FrameFeedRest ==
    /\ scn.kind # "none" /\ scn.phase = "unpacked1"
    /\ CopyToRing(SubSeqOf(scn.stream, scn.cut + 1, Len(scn.stream)))
    /\ scn' = [scn EXCEPT !.phase = "fed2"]
    /\ ncalls' = ncalls + 1
    /\ UNCHANGED svcVars

FrameUnpackRest ==
    /\ scn.kind # "none" /\ scn.phase = "fed2"
    /\ UnpackLink
    /\ scn' = [scn EXCEPT !.phase = "done"]
    /\ UNCHANGED <<svcVars, ncalls>>

NextFrame ==
    \/ FrameSend
    \/ FrameFeedFirst
    \/ FrameUnpackFirst
    \/ FrameFeedRest
    \/ FrameUnpackRest

SpecFrame == InitFrame /\ [][NextFrame]_vars

----------------------------------------------------------------------------
(* Round trip, resynchronization, partial frames, checksum.                *)

MuxOf(buf) == Field(buf[CBC_ADDR_POS], CBC_MUX_OFFSET, CBC_MUX_MASK)

\* the request e carries the frame on the wire and the service frame of q
Decodes(e, q, wire) ==
    /\ e.link_len = Len(wire)
    /\ \A i \in 0..(Len(wire) - 1) : e.buf[i] = wire[i + 1]
    /\ MuxOf(e.buf) = q.id
    /\ \A i \in 0..(q.srv_len - 1) :
          e.buf[CBC_SRV_POS + i] = q.buf[CBC_SRV_POS + i]

\* C1: a request packed by cbc_pack_address and cbc_pack_link, its link_len
\* bytes appended to an empty ring and unpacked, gives exactly one request,
\* of frame length link_len, with the channel id, the command byte and the
\* payload of the packed request.
RoundTrip ==
    (scn.kind = "whole" /\ scn.phase = "unpacked1") =>
        /\ Len(scn.wire) = pkt.req.link_len
        /\ Len(rx_q) = 1
        /\ Decodes(rx_q[1], scn.req, scn.wire)
        /\ Avalids(ring) = 0

\* the longest service frame made the round trip across the end of the ring
RoundTripWitness ==
    /\ scn.kind = "whole" /\ scn.phase = "unpacked1"
    /\ scn.req.srv_len = CBC_MAX_SERVICE_SIZE
    /\ scn.req.id = IOC_NATIVE_RAW11
    /\ ring.head < scn.start.ring.head
    /\ Len(rx_q) = 1

\* one request came out and head moved past the stray byte and the frame
StrayDropped ==
    /\ Len(rx_q) = 1
    /\ Decodes(rx_q[1], scn.req, scn.wire)
    /\ ring.head = RingMask(scn.start.ring.head + 1 + Len(scn.wire))

\* C2 as stated: one garbage byte of any value, then one valid frame, gives
\* exactly one request and head advanced by 1 + frame_len.
ResyncAnyByte ==
    (scn.kind = "stray" /\ scn.phase = "unpacked1") => StrayDropped

\* C2 amended: the same for every garbage byte but the start-of-frame value.
ResyncNonSofByte ==
    (/\ scn.kind = "stray" /\ scn.phase = "unpacked1"
     /\ scn.stream[1] # CBC_SOF_VALUE) => StrayDropped

ResyncWitness ==
    /\ scn.kind = "stray" /\ scn.phase = "unpacked1"
    /\ scn.stream[1] = 255
    /\ Len(rx_q) = 1
    /\ Avalids(ring) = 0

\* the receive side after the whole frame is appended at once and unpacked
WholeAtOnce ==
    cbc_unpack_link(cbc_copy_to_ring(scn.wire, scn.start.ring).ring,
                    scn.start.remains, scn.start.rx_seq_counter,
                    scn.start.rx_q)

\* C3: a valid frame fed in two appends with an unpack after each leaves the
\* same requests, head, tail, remains and rx sequence counter as the frame
\* fed in one append and unpacked once.
PartialFrame ==
    (scn.kind = "cut" /\ scn.phase = "done") =>
        \E w \in {WholeAtOnce} :
            /\ rx_q = w.rx_q
            /\ ring.head = w.ring.head
            /\ ring.tail = w.ring.tail
            /\ remains = w.remains
            /\ rx_seq_counter = w.rx_seq_counter

\* the first unpack saw the header and waited, the second emitted the frame
PartialFrameWitness ==
    /\ scn.kind = "cut" /\ scn.phase = "done"
    /\ scn.cut >= CBC_MIN_FRAME_SIZE
    /\ Len(scn.wire) > CBC_MAX_SERVICE_SIZE
    /\ Len(rx_q) = 1
    /\ remains = 0

\* C10: with any one bit of any of the first frame_len - 1 bytes inverted,
\* cbc_verify_chksum rejects the frame against its original checksum byte,
\* which it accepts for the frame as sent.
ChecksumSensitive ==
    /\ (scn.kind = "flip" /\ scn.phase = "fed1") =>
          cbc_verify_chksum(ring, Len(scn.wire) - 1,
                            scn.wire[Len(scn.wire)]) = -1
    /\ (scn.kind = "whole" /\ scn.phase = "fed1") =>
          cbc_verify_chksum(ring, Len(scn.wire) - 1,
                            scn.wire[Len(scn.wire)]) = 0

\* the top bit of a payload byte was inverted
ChecksumWitness ==
    /\ scn.kind = "flip" /\ scn.phase = "fed1"
    /\ scn.req.srv_len = 5
    /\ scn.stream[CBC_PAYLOAD_POS + 1] = FlipBit(scn.wire[CBC_PAYLOAD_POS + 1], 7)
    /\ RingContent(ring) = scn.stream

----------------------------------------------------------------------------
(* Service dispatch: the rx side hands every deframed request to           *)
(* cbc_rx_handler and routes it to the tx side when the handler asks for   *)
(* it; the tx side hands requests of the native cdevs and routed requests  *)
(* to cbc_tx_handler.                                                      *)

MaxCalls == 3

CBC_REQ_T_SUSPEND == 1
CBC_WK_RSN_BTN == 32

FreshRing ==
    [head |-> 0, tail |-> 0, buf |-> [i \in 0..(CBC_RING_BUFFER_SIZE - 1) |-> 0]]

\* the request cbc_unpack_link builds from the frame of service frame srv
RxReq(id, srv) ==
    cbc_unpack_link(cbc_copy_to_ring(Wire(id, srv, 0), FreshRing).ring,
                    0, 0, <<>>).rx_q[1]

\* the request built from srv_len bytes read from a native cdev
TxReq(id, srv) == MkReq(CBC_REQ_T_PROT, id, srv, 0)

\* entry k of a multi-signal payload: id, then the value bytes
Entry(id, k) ==
    <<id % 256, id \div 256>>
    \o [j \in 1..cbc_get_signal_len(id, SigTblInit) |-> 16 * k + j]

RECURSIVE Entries(_, _, _)
\* the entries i.. of ids whose verdict in rc is 0, one after the other
Entries(ids, rc, i) ==
    IF i > Len(ids) THEN <<>>
    ELSE (IF rc[i] = 0 THEN Entry(ids[i], i) ELSE <<>>)
         \o Entries(ids, rc, i + 1)

\* 16 entries that fill the largest service frame
FullList == [i \in 1..16 |-> IF i <= 14 THEN 2 ELSE 3]

\* the multi-signal frame of ids whose count byte says n
CountedSrv(ids, n) ==
    <<CBC_SD_MULTI_SIGNAL, n>> \o Entries(ids, [i \in 1..Len(ids) |-> 0], 1)

\* count bytes that announce more entries than the frame of FullList holds
OverCounts == {17, 18}

MultiSrv(ids) ==
    <<CBC_SD_MULTI_SIGNAL, Len(ids)>>
    \o Entries(ids, [i \in 1..Len(ids) |-> 0], 1)

HbCmds ==
    {CBC_HB_SD_PREP, CBC_HB_ACTIVE, CBC_HB_SD_DLY, CBC_HB_INITIAL,
     CBC_HB_STANDBY, CBC_HB_DIAG}

LifecycleSrvs ==
    {<<CBC_SC_HB, c, 0>> : c \in HbCmds}
    \cup {<<CBC_SC_WK_RSN, 32, 0, 0>>, <<CBC_SC_WK_RSN, 255, 255, 255>>, <<9>>}

\* a multi-id invalidation of n ids: a first, b last, unknown ids between;
\* what does not fit the largest service frame is cut off
InvalSrv(cmd, n, a, b) ==
    LET all == <<cmd, 0, n>>
               \o [j \in 1..(2 * n) |->
                     IF j = 1 THEN a ELSE IF j = 2 * n - 1 THEN b ELSE 0]
    IN  SubSeqOf(all, 1, IF Len(all) > CBC_MAX_SERVICE_SIZE
                         THEN CBC_MAX_SERVICE_SIZE ELSE Len(all))

\* entry counts around the bound of cbc_set_invalidation
InvalCounts == {30, 31, 32}

SignalSrvs ==
    {InvalSrv(CBC_SD_INVAL_MSIG, n, 2, 3) : n \in InvalCounts}
    \cup {InvalSrv(CBC_SD_INVAL_MGRP, n, 2, 1) : n \in InvalCounts}
    \cup {CountedSrv(FullList, n) : n \in OverCounts}
    \cup
    {<<CBC_SD_OPEN_CHANNEL>>, <<CBC_SD_RESET_CHANNEL>>,
     <<CBC_SD_CLOSE_CHANNEL>>,
     <<CBC_SD_SINGLE_SIGNAL, 3, 0, 7>>,
     MultiSrv(<<3>>), MultiSrv(<<257, 3>>), MultiSrv(<<2, 3, 257>>),
     MultiSrv(FullList),
     <<CBC_SD_GROUP_SIGNAL, 1, 0, 7>>,
     <<CBC_SD_INVAL_SSIG, 3, 0>>, <<CBC_SD_INVAL_SSIG, 1, 1>>,
     <<CBC_SD_INVAL_SSIG, 99, 0>>,
     <<CBC_SD_INVAL_MSIG, 0, 2, 2, 0, 3, 0>>,
     <<CBC_SD_INVAL_SGRP, 1, 0>>,
     <<CBC_SD_INVAL_MGRP, 0, 1, 2, 0>>,
     <<9>>}

\* service frames by channel
ChannelSrvs ==
    {<<IOC_NATIVE_LFCC, srv>> : srv \in LifecycleSrvs}
    \cup {<<IOC_NATIVE_SIGNAL, srv>> : srv \in SignalSrvs}
    \cup {<<IOC_NATIVE_RAW0, Pattern(4)>>, <<IOC_NATIVE_RAW11, Pattern(9)>>,
          <<IOC_NATIVE_PMT, Pattern(1)>>, <<IOC_NATIVE_DLT, Pattern(1)>>}

RxReqs ==
    {RxReq(c[1], c[2]) : c \in ChannelSrvs}
    \cup {[RxReq(IOC_NATIVE_RAW0, Pattern(4)) EXCEPT !.rtype = CBC_REQ_T_SOC]}

TxReqs ==
    {TxReq(c[1], c[2]) : c \in ChannelSrvs}
    \cup {TxReq(IOC_NATIVE_RAW0, Pattern(CBC_MAX_SERVICE_SIZE)),
          TxReq(IOC_NATIVE_RAW0, Pattern(CBC_MAX_SERVICE_SIZE + 1)),
          [TxReq(IOC_NATIVE_RAW0, Pattern(4)) EXCEPT
              !.rtype = CBC_REQ_T_SUSPEND]}

BootReasons == {0, CBC_WK_RSN_BTN}

\* the session a handler is entered with, no ioc_ch_xmit call made yet
Session ==
    [pkt |-> pkt, tx_seq_counter |-> tx_seq_counter, is_active |-> is_active,
     cbc_sig_tbl |-> cbc_sig_tbl, cbc_grp_tbl |-> cbc_grp_tbl, xmit |-> <<>>]

\* the session a handler returned
Returned(s) ==
    /\ pkt' = s.pkt
    /\ tx_seq_counter' = s.tx_seq_counter
    /\ is_active' = s.is_active
    /\ cbc_sig_tbl' = s.cbc_sig_tbl
    /\ cbc_grp_tbl' = s.cbc_grp_tbl
    /\ xmit' = s.xmit

\* the thread points the packet at the request and resets its queue type
Dispatch(req) ==
    [Session EXCEPT !.pkt.req = req, !.pkt.qtype = CBC_QUEUE_T_FREE]

InitService ==
    /\ InitRx(0)
    /\ \E b \in BootReasons : pkt = InitPkt(b)
    /\ tx_seq_counter = 0
    /\ is_active = FALSE
    /\ cbc_sig_tbl = SigTblInit
    /\ cbc_grp_tbl = GrpTblInit
    /\ xmit = <<>>
    /\ tx_q = <<>>
    /\ op = NoOp
    /\ scn = NoScn
    /\ ncalls = 0

RxHandler ==
    /\ ncalls < MaxCalls
    /\ \E req \in RxReqs :
         \E s0 \in {Dispatch(req)} :
            \E s1 \in {cbc_rx_handler(s0)} :
               /\ Returned(s1)
               /\ tx_q' = IF s1.pkt.qtype = CBC_QUEUE_T_TX
                          THEN Append(tx_q, s1.pkt.req) ELSE tx_q
               /\ op' = [name |-> "rx", req |-> req, pre |-> s0,
                         tx_q |-> tx_q]
    /\ ncalls' = ncalls + 1
    /\ UNCHANGED <<rxVars, scn>>

TxHandler ==
    /\ ncalls < MaxCalls
    /\ \E req \in TxReqs :
         \E s0 \in {Dispatch(req)} :
            \E s1 \in {cbc_tx_handler(s0)} :
               /\ Returned(s1)
               /\ op' = [name |-> "tx", req |-> req, pre |-> s0,
                         tx_q |-> tx_q]
    /\ ncalls' = ncalls + 1
    /\ UNCHANGED <<rxVars, tx_q, scn>>

\* the tx side takes the oldest routed request
TxRouted ==
    /\ ncalls < MaxCalls
    /\ tx_q # <<>>
    /\ \E s0 \in {Dispatch(Head(tx_q))} :
         \E s1 \in {cbc_tx_handler(s0)} :
            /\ Returned(s1)
            /\ op' = [name |-> "routed", req |-> Head(tx_q), pre |-> s0,
                      tx_q |-> tx_q]
    /\ tx_q' = Tail(tx_q)
    /\ ncalls' = ncalls + 1
    /\ UNCHANGED <<rxVars, scn>>

NextService == RxHandler \/ TxHandler \/ TxRouted

SpecService == InitService /\ [][NextService]_vars

\* the channel and the command the last handler call dispatched on
ChannelOf(o) == IF o.name = "rx" THEN MuxOf(o.req.buf) ELSE o.req.id

IsCommand(o, ch, cmd) ==
    /\ o.name \in {"rx", "tx"}
    /\ o.req.rtype = CBC_REQ_T_PROT
    /\ ChannelOf(o) = ch
    /\ o.req.buf[CBC_SRV_POS] = cmd

\* the session is as the handler found it, but for the packet
OnlyPktChanged ==
    /\ tx_seq_counter = op.pre.tx_seq_counter
    /\ is_active = op.pre.is_active
    /\ cbc_sig_tbl = op.pre.cbc_sig_tbl
    /\ cbc_grp_tbl = op.pre.cbc_grp_tbl
    /\ xmit = <<>>

\* C6 as stated: cbc_send_pkt on a request with link_len = 0 and srv_len
\* above the maximum service size makes no call of ioc_ch_xmit.
OversizeNotSent ==
    (/\ op.name = "tx"
     /\ op.req.rtype = CBC_REQ_T_PROT
     /\ IsRaw(op.req.id)
     /\ op.req.link_len = 0
     /\ op.req.srv_len > CBC_MAX_SERVICE_SIZE) => xmit = <<>>

\* the payload of the service frame handed to ioc_ch_xmit
OutPayload(x) ==
    IF x.id = IOC_VIRTUAL_UART
    THEN SubSeqOf(x.data, CBC_PAYLOAD_POS + 1, Len(x.data))
    ELSE SubSeqOf(x.data, CBC_SRV_HDR_SIZE + 1, Len(x.data))

RECURSIVE EntryIds(_, _, _, _)
\* the ids of the n entries of multi-signal payload p from position pos on
EntryIds(p, tbl, n, pos) ==
    IF n = 0 THEN <<>>
    ELSE LET id == p[pos] + p[pos + 1] * 256
         IN  <<id>> \o EntryIds(p, tbl, n - 1,
                                pos + 2 + cbc_get_signal_len(id, tbl))

SentIds == LET p == OutPayload(xmit[1]) IN EntryIds(p, cbc_sig_tbl, p[1], 2)

IsInactive(id) ==
    LET k == cbc_find_signal(id, cbc_sig_tbl)
    IN  k # 0 /\ cbc_sig_tbl[k].flag = CBC_INACTIVE

\* C7 as stated: a forwarded multi-signal payload carries no entry of a
\* signal id that an invalidation command has marked inactive.
InvalidatedExcluded ==
    (IsCommand(op, IOC_NATIVE_SIGNAL, CBC_SD_MULTI_SIGNAL) /\ xmit # <<>>) =>
        \A k \in 1..Len(SentIds) : ~IsInactive(SentIds[k])

\* C9: cbc_update_heartbeat turns the request into a SoC state update
\* (rtype SOC, qtype TX, buf[0] the new state) and records the new state
\* exactly when the active boolean of the command (ACTIVE, STANDBY, INITIAL
\* true, anything else false) differs from hb_state; otherwise it changes
\* nothing and nothing is routed.
HeartbeatTransition ==
    IsCommand(op, IOC_NATIVE_LFCC, CBC_SC_HB) =>
        LET stat == IF Payload(op.req, 0) \in
                         {CBC_HB_ACTIVE, CBC_HB_STANDBY, CBC_HB_INITIAL}
                    THEN 1 ELSE 0
            entry == [op.pre.pkt EXCEPT !.req.id = IOC_NATIVE_LFCC]
        IN  /\ OnlyPktChanged
            /\ IF stat # op.pre.pkt.hb_state
               THEN /\ pkt = [entry EXCEPT !.qtype = CBC_QUEUE_T_TX,
                                           !.req.rtype = CBC_REQ_T_SOC,
                                           !.req.buf[0] = stat,
                                           !.hb_state = stat]
                    /\ op.name = "rx" => tx_q = Append(op.tx_q, pkt.req)
               ELSE /\ pkt = entry
                    /\ pkt.qtype = CBC_QUEUE_T_FREE
                    /\ pkt.req.rtype = CBC_REQ_T_PROT
                    /\ tx_q = op.tx_q

\* ACTIVE after a command that made the heartbeat active: nothing happens
HeartbeatWitness ==
    /\ IsCommand(op, IOC_NATIVE_LFCC, CBC_SC_HB)
    /\ op.name = "rx"
    /\ Payload(op.req, 0) = CBC_HB_ACTIVE
    /\ op.pre.pkt.hb_state = 1
    /\ pkt.hb_state = 1
    /\ pkt.qtype = CBC_QUEUE_T_FREE
    /\ Len(tx_q) = 1

----------------------------------------------------------------------------
(* The signal filter with the verdicts of the whitelist as an input.       *)
(* wlist_verify_signal accepts every id, so the reject branch of           *)
(* cbc_forward_signals is exercised by giving the scan the return codes.   *)

MaxEntries == 3

SigIds == {SigTblInit[i].id : i \in 1..Len(SigTblInit)}

EntryLists ==
    UNION {[1..n -> SigIds] : n \in 1..MaxEntries} \cup {FullList}

\* return codes of wlist_verify_signal, one per entry
Verdicts(n) ==
    IF n <= MaxEntries
    THEN [1..n -> {0, -1}]
    ELSE {[i \in 1..n |-> 0], [i \in 1..n |-> -1],
          [i \in 1..n |-> IF i % 2 = 0 THEN 0 ELSE -1],
          [i \in 1..n |-> IF i = n THEN 0 ELSE -1]}

FilterReq(dir, ids) ==
    IF dir = "rx"
    THEN [RxReq(IOC_NATIVE_SIGNAL, MultiSrv(ids)) EXCEPT
             !.id = IOC_NATIVE_SIGNAL]
    ELSE TxReq(IOC_NATIVE_SIGNAL, MultiSrv(ids))

\* any number of frames may have been sent before the call
InitFilter ==
    /\ InitRx(0)
    /\ pkt = InitPkt(0)
    /\ tx_seq_counter \in 0..CBC_SEQ_MASK
    /\ is_active = FALSE
    /\ cbc_sig_tbl = SigTblInit
    /\ cbc_grp_tbl = GrpTblInit
    /\ xmit = <<>>
    /\ tx_q = <<>>
    /\ op = NoOp
    /\ scn = NoScn
    /\ ncalls = 0

ForwardCall ==
    /\ op.name = "init"
    /\ \E ids \in EntryLists, dir \in {"rx", "tx"} :
         \E rc \in Verdicts(Len(ids)) :
            \E s0 \in {Dispatch(FilterReq(dir, ids))} :
               \E s1 \in {ForwardSignals(s0, rc)} :
                  /\ Returned(s1)
                  /\ op' = [name |-> "forward", dir |-> dir, ids |-> ids,
                            rc |-> rc, pre |-> s0]
    /\ UNCHANGED <<rxVars, tx_q, scn, ncalls>>

NextFilter == ForwardCall

SpecFilter == InitFilter /\ [][NextFilter]_vars

\* C8: when at least one entry is accepted, the payload cbc_forward_signals
\* sends starts with a count byte equal to the number of accepted entries,
\* followed by exactly the accepted entries, byte-identical and in their
\* original order, and its length is the sum of their spans plus one (the
\* service frame one more, with the multi-signal command byte in front);
\* when no entry is accepted nothing is sent.
SignalFilter ==
    op.name = "forward" =>
        LET kept == Entries(op.ids, op.rc, 1)
            n == Cardinality({i \in 1..Len(op.ids) : op.rc[i] = 0})
        IN  IF n = 0
            THEN xmit = <<>>
            ELSE /\ Len(xmit) = 1
                 /\ pkt.req.srv_len = Len(kept) + 1 + CBC_SRV_HDR_SIZE
                 /\ SubSeqOf(OutPayload(xmit[1]), 1, Len(kept) + 1)
                        = <<n>> \o kept
                 /\ op.dir = "rx" =>
                        /\ xmit[1].id = IOC_NATIVE_SIGNAL
                        /\ xmit[1].data = <<CBC_SD_MULTI_SIGNAL, n>> \o kept
                 /\ op.dir = "tx" =>
                        /\ xmit[1].id = IOC_VIRTUAL_UART
                        /\ xmit[1].data[CBC_SRV_POS + 1] = CBC_SD_MULTI_SIGNAL
                        /\ xmit[1].data =
                             Wire(IOC_NATIVE_SIGNAL,
                                  <<CBC_SD_MULTI_SIGNAL, n>> \o kept,
                                  op.pre.tx_seq_counter)

\* three entries, the first and the third accepted
SignalFilterWitness ==
    /\ op.name = "forward"
    /\ op.ids = <<257, 2, 3>>
    /\ op.rc = <<0, -1, 0>>
    /\ op.dir = "rx"
    /\ xmit = <<[id |-> IOC_NATIVE_SIGNAL,
                 data |-> <<CBC_SD_MULTI_SIGNAL, 2, 1, 1, 17, 3, 0, 49>>]>>

----------------------------------------------------------------------------
(* Sequence numbers on the receive side.                                   *)

\* the sequence field of a frame on the wire
SeqOf(wire) == Field(wire[CBC_ELS_POS + 1], CBC_SEQ_OFFSET, CBC_SEQ_MASK)

\* the sequence the deframer expects next
ExpectedSeq(c) == (c + 1) % (CBC_SEQ_MASK + 1)

\* C11: a valid frame is emitted and its frame_len bytes are consumed
\* whatever its sequence field is, and afterwards the rx sequence counter
\* equals the sequence field of the frame: the expected value when the frame
\* is in order, the observed value otherwise.
SequenceNonFatal ==
    (scn.kind = "whole" /\ scn.phase = "unpacked1") =>
        /\ Len(rx_q) = Len(scn.start.rx_q) + 1
        /\ rx_q[Len(rx_q)].link_len = Len(scn.wire)
        /\ ring.head = RingMask(scn.start.ring.head + Len(scn.wire))
        /\ rx_seq_counter = SeqOf(scn.wire)
        /\ SeqOf(scn.wire) = ExpectedSeq(scn.start.rx_seq_counter)
              => rx_seq_counter = ExpectedSeq(scn.start.rx_seq_counter)

\* a frame two ahead of the expected sequence was accepted
SequenceWitness ==
    /\ scn.kind = "whole" /\ scn.phase = "unpacked1"
    /\ SeqOf(scn.wire) = ExpectedSeq(ExpectedSeq(ExpectedSeq(
                             scn.start.rx_seq_counter)))
    /\ Len(rx_q) = 1
    /\ rx_seq_counter = SeqOf(scn.wire)
    /\ Avalids(ring) = 0

----------------------------------------------------------------------------
(* Overflow of the ring on append.                                         *)

\* C12: cbc_copy_to_ring returns -1 exactly when the input has more bytes
\* than the ring has free (C - 1 - occupied); then the bytes copied before
\* the overflow stay in the ring in order and no later byte is stored;
\* otherwise it returns 0 and every byte is stored in order.  Head and the
\* bytes that were unread stay as they were in both cases.
AppendOverflow ==
    [][op'.name = "copy" =>
          LET free == CBC_RING_BUFFER_SIZE - 1 - Avalids(ring)
              n == Len(op'.bytes)
              old == RingContent(ring)
              new == RingContent(ring')
          IN  /\ op'.rc = (IF n > free THEN -1 ELSE 0)
              /\ ring'.head = ring.head
              /\ IsPrefix(old, new)
              /\ Len(new) = Len(old) + (IF n > free THEN free ELSE n)
              /\ \A i \in 1..(Len(new) - Len(old)) :
                    new[Len(old) + i] = op'.bytes[i]]_vars

\* 128 bytes arrived with 127 bytes free: 127 were stored, the call failed
AppendOverflowWitness ==
    /\ op.name = "copy"
    /\ op.rc = -1
    /\ op.avail = 128
    /\ Len(op.bytes) = 128
    /\ Avalids(ring) = CBC_RING_BUFFER_SIZE - 1

----------------------------------------------------------------------------
(* Multi-id invalidation.                                                  *)

\* table with every entry whose id is among the n ids of the request marked
\* inactive and every other entry as it was
Marked(tbl, req, n) ==
    [k \in 1..Len(tbl) |->
        IF \E i \in 0..(n - 1) : Id16(req, i * 2 + 2) = tbl[k].id
        THEN [tbl[k] EXCEPT !.flag = CBC_INACTIVE]
        ELSE tbl[k]]

\* the tables after a multi-id invalidation that is rejected or carried out
InvalidationDone(rejected) ==
    LET n == Payload(op.req, 1)
        sig == op.req.buf[CBC_SRV_POS] = CBC_SD_INVAL_MSIG
    IN  IF rejected
        THEN /\ cbc_sig_tbl = op.pre.cbc_sig_tbl
             /\ cbc_grp_tbl = op.pre.cbc_grp_tbl
        ELSE /\ cbc_sig_tbl = IF sig THEN Marked(op.pre.cbc_sig_tbl, op.req, n)
                              ELSE op.pre.cbc_sig_tbl
             /\ cbc_grp_tbl = IF sig THEN op.pre.cbc_grp_tbl
                              ELSE Marked(op.pre.cbc_grp_tbl, op.req, n)

IsMultiInval(o) ==
    \/ IsCommand(o, IOC_NATIVE_SIGNAL, CBC_SD_INVAL_MSIG)
    \/ IsCommand(o, IOC_NATIVE_SIGNAL, CBC_SD_INVAL_MGRP)

\* C13 as stated: a multi-id invalidation of n ids is rejected, the tables
\* unchanged, exactly when n * 2 + 2 exceeds the maximum service size;
\* otherwise every referenced entry is marked inactive and no other changes.
InvalidationBoundExceeds ==
    IsMultiInval(op) =>
        InvalidationDone(Payload(op.req, 1) * 2 + 2 > CBC_MAX_SERVICE_SIZE)

\* C13 amended: the same with the rejection exactly when n * 2 + 2 reaches
\* or exceeds the maximum service size.
InvalidationBoundReaches ==
    IsMultiInval(op) =>
        InvalidationDone(Payload(op.req, 1) * 2 + 2 >= CBC_MAX_SERVICE_SIZE)

\* 30 ids, the first and the last in the table: both marked, the third not
InvalidationWitness ==
    /\ IsCommand(op, IOC_NATIVE_SIGNAL, CBC_SD_INVAL_MSIG)
    /\ Payload(op.req, 1) = 30
    /\ op.pre.cbc_sig_tbl = SigTblInit
    /\ cbc_sig_tbl[1].flag = CBC_ACTIVE
    /\ cbc_sig_tbl[2].flag = CBC_INACTIVE
    /\ cbc_sig_tbl[3].flag = CBC_INACTIVE
    /\ cbc_grp_tbl = GrpTblInit

----------------------------------------------------------------------------
(* Wakeup reason.                                                          *)

\* the last handler call ended in cbc_update_wakeup_reason
IsWakeupCall(o) ==
    \/ IsCommand(o, IOC_NATIVE_LFCC, CBC_SC_WK_RSN)
    \/ o.name \in {"tx", "routed"} /\ o.req.rtype = CBC_REQ_T_SOC

\* the reason and the soc_active the call was made with
ReasonIn(o) ==
    IF o.req.rtype = CBC_REQ_T_SOC
    THEN o.pre.pkt.reason
    ELSE Payload(o.req, 0) + Payload(o.req, 1) * 256
         + Payload(o.req, 2) * 65536

SocActiveIn(o) ==
    IF o.req.rtype = CBC_REQ_T_SOC THEN o.req.buf[0] ELSE o.pre.pkt.soc_active

\* low 23 bits of r under the SoC bit b: r with bit 23 forced, in 24 bits
WithSocBit(r, b) == (r % (2 ^ 23)) + b * (2 ^ 23)

\* C14: after cbc_update_wakeup_reason(pkt, r) the reason recorded and sent
\* is r with the SoC bit set, in 24 bits, and boot_reason is 0, when
\* soc_active is set; r with the SoC bit cleared, in 24 bits, when
\* soc_active is clear and boot_reason is 0; boot_reason when soc_active is
\* clear and boot_reason is not 0.  The three payload bytes are the low 24
\* bits of the reason, low byte first, in a wakeup reason frame of the
\* lifecycle channel.
WakeupReason ==
    IsWakeupCall(op) =>
        LET boot == op.pre.pkt.boot_reason
            e == IF SocActiveIn(op) # 0 THEN WithSocBit(ReasonIn(op), 1)
                 ELSE IF boot = 0 THEN WithSocBit(ReasonIn(op), 0)
                 ELSE boot
        IN  /\ pkt.reason = e
            /\ pkt.boot_reason = (IF SocActiveIn(op) # 0 THEN 0 ELSE boot)
            /\ pkt.req.id = IOC_NATIVE_LFCC
            /\ xmit = <<[id |-> IOC_VIRTUAL_UART,
                         data |-> Wire(IOC_NATIVE_LFCC,
                                       <<CBC_SC_WK_RSN, e % 256,
                                         (e \div 256) % 256,
                                         (e \div 65536) % 256>>,
                                       op.pre.tx_seq_counter)]>>

\* the SoC became active with a boot reason pending: the boot reason is
\* dropped and the reason sent has the SoC bit
WakeupReasonWitness ==
    /\ op.name = "routed"
    /\ op.req.buf[0] = 1
    /\ op.pre.pkt.boot_reason = CBC_WK_RSN_BTN
    /\ op.pre.pkt.reason = CBC_WK_RSN_BTN
    /\ pkt.boot_reason = 0
    /\ pkt.reason = CBC_WK_RSN_SOC + CBC_WK_RSN_BTN
    /\ Len(xmit) = 1

----------------------------------------------------------------------------
(* The safety check of the signal filter.                                  *)

RECURSIVE ScanOverflows(_, _, _, _)
\* scanning the entries i.. of the multi-signal payload of req from offset,
\* the offset behind some entry reaches the maximum service size
ScanOverflows(req, tbl, i, offset) ==
    IF i >= Payload(req, 0) THEN FALSE
    ELSE LET next == offset + cbc_get_signal_len(Id16(req, offset), tbl) + 2
         IN  IF next + 1 > CBC_MAX_SERVICE_SIZE THEN TRUE
             ELSE ScanOverflows(req, tbl, i + 1, next)

\* C15: when the read offset of the scan of a multi-signal payload would
\* exceed the maximum service size, cbc_forward_signals stops the scan and
\* nothing is sent for the request: no call of ioc_ch_xmit, no frame packed.
FilterOverflowAbort ==
    (/\ IsCommand(op, IOC_NATIVE_SIGNAL, CBC_SD_MULTI_SIGNAL)
     /\ ScanOverflows(op.req, op.pre.cbc_sig_tbl, 0, 1))
        => /\ xmit = <<>>
           /\ tx_seq_counter = op.pre.tx_seq_counter
           /\ pkt.req.srv_len = op.req.srv_len
           /\ pkt.req.link_len = op.req.link_len

\* a frame from the native side, the channel open, whose count byte
\* announces 18 entries where 16 fill the frame: nothing is sent
FilterOverflowWitness ==
    /\ op.name = "tx"
    /\ op.pre.is_active
    /\ ChannelOf(op) = IOC_NATIVE_SIGNAL
    /\ op.req.srv_len = CBC_MAX_SERVICE_SIZE
    /\ op.req.buf[CBC_SRV_POS] = CBC_SD_MULTI_SIGNAL
    /\ Payload(op.req, 0) = 18
    /\ xmit = <<>>

----------------------------------------------------------------------------
(* The loop of cbc_unpack_link, one iteration at a time.  The rx thread    *)
(* appends what it read to the ring or calls cbc_unpack_link; inside the   *)
(* call every step is one pass through the body of the for (;;) loop.     *)

MaxFeeds == 3

\* the frame of 12 bytes that IterChunks delivers in two pieces
SplitFrame == Wire(IOC_NATIVE_SIGNAL, <<1, 2, 3, 4, 5>>, 1)

IterChunks ==
    {Run(0, 9),
     Wire(IOC_NATIVE_RAW0, <<1>>, 0),
     BadChk(Wire(IOC_NATIVE_RAW0, <<1>>, 0)),
     SubSeqOf(SplitFrame, 1, CBC_MIN_FRAME_SIZE),
     SubSeqOf(SplitFrame, CBC_MIN_FRAME_SIZE + 1, Len(SplitFrame)),
     \* length field 31: frame_len 132 exceeds CBC_MAX_FRAME_SIZE
     <<CBC_SOF_VALUE, 124, 0, 0, 0, 0, 0, 0>>,
     \* length field 22: the first 8 bytes of a 96 byte frame
     <<CBC_SOF_VALUE, 88, 0, 0, 0, 0, 0, 0>>}

\* the thread is inside the for (;;) loop
InLoop == op.name = "iter" /\ op.run

IterFeed ==
    /\ ~InLoop
    /\ ncalls < MaxFeeds
    /\ \E bytes \in IterChunks :
          ring' = cbc_copy_to_ring(bytes, ring).ring
    /\ op' = [name |-> "copy"]
    /\ ncalls' = ncalls + 1
    /\ UNCHANGED <<remains, rx_seq_counter, rx_q, svcVars, scn>>

\* the call of cbc_unpack_link: before the first iteration
IterEnter ==
    /\ ~InLoop
    /\ op' = [name |-> "iter", run |-> TRUE, passes |-> "none",
              avail |-> Avalids(ring), queued |-> Len(rx_q)]
    /\ UNCHANGED <<rxVars, svcVars, scn, ncalls>>

\* one iteration; op keeps the bytes and requests the iteration found
IterStep ==
    /\ InLoop
    /\ \E st \in {UnpackIter([ring |-> ring, remains |-> remains,
                              rx_seq_counter |-> rx_seq_counter,
                              rx_q |-> rx_q, run |-> TRUE])} :
          /\ ring' = st.ring
          /\ remains' = st.remains
          /\ rx_seq_counter' = st.rx_seq_counter
          /\ rx_q' = st.rx_q
          /\ op' = [name |-> "iter", run |-> st.run,
                    passes |-> IF op.passes = "none" THEN "one" ELSE "more",
                    avail |-> Avalids(ring), queued |-> Len(rx_q)]
    /\ UNCHANGED <<svcVars, scn, ncalls>>

NextIter == IterFeed \/ IterEnter \/ IterStep

SpecIter == Init /\ [][NextIter]_vars

\* the loop runs on once entered
SpecIterFair == SpecIter /\ WF_vars(IterStep)

\* the bytes from head on, and the tests of an iteration on them
Window == RingContent(ring)

Parses == Len(Window) >= CBC_MIN_FRAME_SIZE /\ Len(Window) >= remains

WindowLen == FrameLenOf(Window[CBC_ELS_POS + 1])

MarkerOk == Window[CBC_SOF_POS + 1] = CBC_SOF_VALUE

SizeOk == WindowLen <= CBC_MAX_FRAME_SIZE

Complete == Len(Window) >= WindowLen

ChecksumOk ==
    Window[WindowLen] =
        cbc_cal_chksum([i \in 0..(WindowLen - 2) |-> Window[i + 1]],
                       WindowLen - 1) % 256

ValidWindow == Parses /\ MarkerOk /\ SizeOk /\ Complete /\ ChecksumOk

FailedWindow ==
    /\ Parses
    /\ \/ ~MarkerOk
       \/ ~SizeOk
       \/ Complete /\ ~ChecksumOk

\* C16: a request is emitted only by an iteration whose window at head
\* starts with the start-of-frame marker, has a frame_len within the
\* maximum frame size that is fully available, and ends in the checksum of
\* the frame_len - 1 bytes before it; the request is that window, which
\* leaves the ring.  A window failing the marker, size or checksum test has
\* exactly its first byte dropped and nothing is emitted.
OnlyValidFrames ==
    [][/\ rx_q' # rx_q => InLoop /\ ValidWindow
       /\ InLoop /\ ValidWindow =>
            /\ Len(rx_q') = Len(rx_q) + 1
            /\ IsPrefix(rx_q, rx_q')
            /\ rx_q'[Len(rx_q')].link_len = WindowLen
            /\ \A i \in 1..WindowLen :
                   rx_q'[Len(rx_q')].buf[i - 1] = Window[i]
            /\ RingContent(ring') =
                   SubSeqOf(Window, WindowLen + 1, Len(Window))
       /\ InLoop /\ FailedWindow =>
            /\ rx_q' = rx_q
            /\ RingContent(ring') = Tail(Window)]_vars

\* a frame with a wrong checksum, then a good one, into the fresh ring:
\* eight bytes were dropped one by one and the good frame was emitted
OnlyValidFramesWitness ==
    /\ op.name = "iter"
    /\ op.avail = CBC_MIN_FRAME_SIZE
    /\ op.queued = 0
    /\ Len(rx_q) = 1
    /\ ring.head = 2 * CBC_MIN_FRAME_SIZE
    /\ ring.tail = ring.head
    /\ ring.buf[CBC_MIN_FRAME_SIZE - 1]
           # rx_q[1].buf[CBC_MIN_FRAME_SIZE - 1]

\* the iteration waits for the rest of a frame
Awaits == Parses /\ MarkerOk /\ SizeOk /\ ~Complete

\* C17: an iteration that finds the start-of-frame marker at head, a
\* frame_len within the maximum and fewer bytes than frame_len sets remains
\* to frame_len, consumes no byte and emits nothing, and the loop exits on
\* the next test; whenever cbc_unpack_link has returned, available is below
\* the minimum frame size or below remains; remains is always 0 or a frame
\* length between the minimum and the maximum frame size.
AwaitingFrame ==
    /\ [](/\ remains \in {0} \cup CBC_MIN_FRAME_SIZE..CBC_MAX_FRAME_SIZE
          /\ (op.name = "iter" /\ ~op.run) =>
                \/ Avalids(ring) < CBC_MIN_FRAME_SIZE
                \/ Avalids(ring) < remains)
    /\ [][InLoop /\ Awaits =>
            /\ remains' = WindowLen
            /\ ring' = ring
            /\ rx_q' = rx_q
            /\ Avalids(ring') < remains'
            /\ op'.run]_vars
    /\ [][InLoop /\ ~Parses => ~op'.run /\ UNCHANGED rxVars]_vars

\* cbc_unpack_link returned with the first 8 bytes of a 12 byte frame in
\* the ring, after one iteration that recorded the length and one that left
AwaitingFrameWitness ==
    /\ op.name = "iter"
    /\ ~op.run
    /\ op.passes = "more"
    /\ op.avail = CBC_MIN_FRAME_SIZE
    /\ remains = Len(SplitFrame)
    /\ Avalids(ring) = CBC_MIN_FRAME_SIZE
    /\ rx_q = <<>>

\* C18: every call of cbc_unpack_link returns: each iteration exits, or
\* takes at least one byte from the ring, or sets remains above the bytes
\* available so that the next iteration exits.
UnpackTerminates ==
    /\ InLoop ~> ~InLoop
    /\ [][InLoop =>
            \/ ~op'.run
            \/ Avalids(ring') < Avalids(ring)
            \/ remains' > Avalids(ring') /\ ring' = ring]_vars

\* the call returned after more than one iteration, having dropped bytes
\* until fewer than a minimum frame were left
UnpackTerminatesWitness ==
    /\ op.name = "iter"
    /\ ~op.run
    /\ op.passes = "more"
    /\ remains = 0
    /\ Avalids(ring) = CBC_MIN_FRAME_SIZE - 1
    /\ rx_q = <<>>

----------------------------------------------------------------------------
(* The framer in one sequential flow: cbc_send_pkt on requests from the    *)
(* native side, one after the other, from the first frame on.              *)

MaxPacks == 5

\* what a reused request buffer holds outside the service frame
StaleBytes == {0, 170}

\* a request from the native side in a buffer that held b everywhere
StaleReq(id, srv, b) ==
    [MkReq(CBC_REQ_T_PROT, id, srv, 0) EXCEPT
        !.buf = [i \in 0..(CBC_MAX_FRAME_SIZE - 1) |->
                   IF i >= CBC_SRV_POS /\ i < CBC_SRV_POS + Len(srv)
                   THEN srv[i - CBC_SRV_POS + 1] ELSE b]]

\* every service length up to two above the maximum
PackReqs ==
    {StaleReq(IOC_NATIVE_RAW0, Pattern(n), b) :
        n \in 1..(CBC_MAX_SERVICE_SIZE + 2), b \in StaleBytes}

InitPack ==
    /\ InitRx(0)
    /\ InitSvc
    /\ op = NoOp
    /\ scn = NoScn
    /\ ncalls = 0

\* cbc_send_pkt; ncalls counts the requests within the maximum service size
PackSend ==
    /\ \E req \in PackReqs :
         \E s0 \in {Dispatch(req)} :
            \E s1 \in {SendPkt(s0)} :
               /\ ncalls < MaxPacks \/ req.srv_len > CBC_MAX_SERVICE_SIZE
               /\ Returned(s1)
               /\ op' = [name |-> "pack", req |-> req, pre |-> s0]
               /\ ncalls' = IF req.srv_len > CBC_MAX_SERVICE_SIZE
                            THEN ncalls ELSE ncalls + 1
    /\ UNCHANGED <<rxVars, tx_q, scn>>

NextPack == PackSend

SpecPack == InitPack /\ [][NextPack]_vars

\* the last call packed a frame / was rejected for its service length
Packed == op.name = "pack" /\ op.req.srv_len <= CBC_MAX_SERVICE_SIZE

Rejected == op.name = "pack" /\ op.req.srv_len > CBC_MAX_SERVICE_SIZE

\* C19: for every srv_len from 1 to the maximum service size, after
\* cbc_pack_link link_len is the smallest multiple of the granularity that
\* is at least srv_len plus the address and link header sizes, every byte
\* from index srv_len + headers - checksum size up to link_len - 2 is 0xFF,
\* the length field is ((srv_len - 1) / CBC_LEN_UNIT) & CBC_LEN_MASK, byte 0
\* is the start-of-frame marker and the last byte is the checksum of the
\* link_len - 1 bytes before it, which cbc_verify_chksum accepts.
FrameLayout ==
    Packed =>
        LET n == op.req.srv_len
            hdrs == CBC_ADDR_HDR_SIZE + CBC_LINK_HDR_SIZE
            f == pkt.req.buf
            l == pkt.req.link_len
            onRing == cbc_copy_to_ring(Bytes(f, 0, l), FreshRing).ring
        IN  /\ l % CBC_GRANULARITY = 0
            /\ l >= n + hdrs
            /\ l - CBC_GRANULARITY < n + hdrs
            /\ \A i \in (n + hdrs - CBC_CHKSUM_SIZE)..(l - 2) : f[i] = 255
            /\ Field(f[CBC_ELS_POS], CBC_LEN_OFFSET, CBC_LEN_MASK)
                   = ((n - 1) \div CBC_LEN_UNIT) % (CBC_LEN_MASK + 1)
            /\ f[CBC_SOF_POS] = CBC_SOF_VALUE
            /\ f[l - 1] = cbc_cal_chksum(f, l - 1) % 256
            /\ cbc_verify_chksum(onRing, l - 1, f[l - 1]) = 0

\* one service byte in a buffer that held 0xAA: an 8 byte frame whose
\* bytes 4 to 6 are padding
FrameLayoutWitness ==
    /\ Packed
    /\ op.req.srv_len = 1
    /\ op.req.buf[CBC_SRV_POS + 1] = 170
    /\ pkt.req.link_len = CBC_MIN_FRAME_SIZE
    /\ pkt.req.buf[CBC_SRV_POS + 1] = 255
    /\ pkt.req.buf[CBC_SRV_POS + 3] = 255

\* C20: in one sequential flow the k-th frame cbc_pack_link packs, counted
\* from 0, carries the sequence field k mod (CBC_SEQ_MASK + 1); the counter
\* goes up by one, wrapping, with every frame packed, and a request
\* rejected for its srv_len leaves the counter and link_len as they were.
TransmitSequence ==
    /\ tx_seq_counter = ncalls % (CBC_SEQ_MASK + 1)
    /\ Packed =>
         /\ Field(pkt.req.buf[CBC_ELS_POS], CBC_SEQ_OFFSET, CBC_SEQ_MASK)
                = (ncalls - 1) % (CBC_SEQ_MASK + 1)
         /\ tx_seq_counter
                = (op.pre.tx_seq_counter + 1) % (CBC_SEQ_MASK + 1)
    /\ Rejected =>
         /\ tx_seq_counter = op.pre.tx_seq_counter
         /\ pkt.req.link_len = op.req.link_len

\* the fifth frame carried sequence 0 again; the request after it, one
\* byte too long, left the counter at 1 and link_len at 0
TransmitSequenceWitness ==
    /\ Rejected
    /\ ncalls = MaxPacks
    /\ op.req.srv_len = CBC_MAX_SERVICE_SIZE + 1
    /\ tx_seq_counter = 1
    /\ pkt.req.link_len = 0

----------------------------------------------------------------------------
(* Routing of cbc_send_pkt.  The handlers pass a request of a raw channel  *)
(* to cbc_send_pkt as it came.                                             *)

\* C21: cbc_send_pkt on a request with link_len = 0 packs the address
\* header, then the link header (the checksum covers the address byte), and
\* hands exactly link_len bytes from the start of the buffer to the virtual
\* UART; on a request with link_len # 0 it hands exactly srv_len bytes from
\* the service header on to channel req->id and changes neither the buffer,
\* link_len nor the transmit sequence counter.
SendRouting ==
    (/\ op.name \in {"rx", "tx"}
     /\ op.req.rtype = CBC_REQ_T_PROT
     /\ IsRaw(ChannelOf(op))) =>
        LET n == op.req.srv_len
            f == pkt.req.buf
            l == pkt.req.link_len
        IN  IF op.req.link_len = 0
            THEN /\ xmit = <<[id |-> IOC_VIRTUAL_UART,
                              data |-> Bytes(f, 0, l)]>>
                 /\ MuxOf(f) = op.req.id
                 /\ Bytes(f, CBC_SRV_POS, n) = Bytes(op.req.buf, CBC_SRV_POS, n)
                 /\ n <= CBC_MAX_SERVICE_SIZE =>
                      /\ l = CBC_GRANULARITY
                               * CDiv(n + CBC_ADDR_HDR_SIZE + CBC_LINK_HDR_SIZE
                                        + CBC_GRANULARITY - 1, CBC_GRANULARITY)
                      /\ f[CBC_SOF_POS] = CBC_SOF_VALUE
                      /\ Field(f[CBC_ELS_POS], CBC_SEQ_OFFSET, CBC_SEQ_MASK)
                             = op.pre.tx_seq_counter
                      /\ f[l - 1] = cbc_cal_chksum(f, l - 1) % 256
                      /\ tx_seq_counter
                             = (op.pre.tx_seq_counter + 1) % (CBC_SEQ_MASK + 1)
                 /\ n > CBC_MAX_SERVICE_SIZE =>
                      /\ l = 0
                      /\ tx_seq_counter = op.pre.tx_seq_counter
            ELSE /\ xmit = <<[id |-> ChannelOf(op),
                              data |-> Bytes(op.req.buf, CBC_SRV_POS, n)]>>
                 /\ f = op.req.buf
                 /\ l = op.req.link_len
                 /\ pkt.req.srv_len = n
                 /\ tx_seq_counter = op.pre.tx_seq_counter

\* the 12 service bytes of a 16 byte frame from the IOC (9 bytes and the
\* padding) go to their raw channel, after a frame from the native side
\* went to the virtual UART
SendRoutingWitness ==
    /\ op.name = "rx"
    /\ op.req.link_len = 16
    /\ op.req.srv_len = 12
    /\ xmit = <<[id |-> IOC_NATIVE_RAW11,
                 data |-> Pattern(9) \o <<255, 255, 255>>]>>
    /\ tx_seq_counter = 1
    /\ op.pre.tx_seq_counter = 1

----------------------------------------------------------------------------
(* The SoC state on the transmit path.                                     *)

\* C22: cbc_tx_handler on a SoC state request sets soc_active to buf[0]
\* and sends a wakeup reason frame made from the reason recorded before;
\* the request the rx side routes at a heartbeat transition carries the new
\* activity state, so the frame sent for it on the virtual UART has the SoC
\* bit equal to that state, when the SoC is active or no boot reason is
\* pending.
SocStateUpdate ==
    /\ \A i \in 1..Len(tx_q) :
          tx_q[i].rtype = CBC_REQ_T_SOC /\ tx_q[i].buf[0] \in {0, 1}
    /\ (/\ IsCommand(op, IOC_NATIVE_LFCC, CBC_SC_HB)
        /\ op.name = "rx"
        /\ Len(tx_q) > Len(op.tx_q)) =>
           tx_q[Len(tx_q)].buf[0] =
               (IF Payload(op.req, 0) \in
                      {CBC_HB_ACTIVE, CBC_HB_STANDBY, CBC_HB_INITIAL}
                THEN 1 ELSE 0)
    /\ (op.name \in {"tx", "routed"} /\ op.req.rtype = CBC_REQ_T_SOC) =>
           LET f == pkt.req.buf
               sent == Payload(pkt.req, 0) + Payload(pkt.req, 1) * 256
                       + Payload(pkt.req, 2) * 65536
           IN  /\ pkt.soc_active = op.req.buf[0]
               /\ xmit = <<[id |-> IOC_VIRTUAL_UART,
                            data |-> Bytes(f, 0, CBC_MIN_FRAME_SIZE)]>>
               /\ MuxOf(f) = IOC_NATIVE_LFCC
               /\ f[CBC_SRV_POS] = CBC_SC_WK_RSN
               /\ (op.req.buf[0] # 0 \/ op.pre.pkt.boot_reason = 0) =>
                     /\ sent = WithSocBit(op.pre.pkt.reason, op.req.buf[0])
                     /\ Field(f[CBC_PAYLOAD_POS + 2], 7, 1) = op.req.buf[0]

\* the button reason was recorded, the heartbeat became active on rx, and
\* the tx side sent the button reason with the SoC bit
SocStateUpdateWitness ==
    /\ op.name = "routed"
    /\ op.req.buf[0] = 1
    /\ op.pre.pkt.soc_active = 0
    /\ op.pre.pkt.boot_reason = 0
    /\ op.pre.pkt.reason = CBC_WK_RSN_BTN
    /\ op.pre.pkt.hb_state = 1
    /\ pkt.soc_active = 1
    /\ Payload(pkt.req, 2) = 128
    /\ Len(xmit) = 1

----------------------------------------------------------------------------
(* Requests the handlers drop.                                             *)

\* C23: cbc_rx_handler on a request that is not a protocol request, and
\* either handler on a protocol request whose channel is neither the
\* lifecycle channel, the signal channel nor a raw channel, send nothing
\* and leave hb_state, soc_active, reason, boot_reason, the signal and
\* group flags, the state of the signal channel and the transmit sequence
\* counter as they were; nothing is routed to the tx side.
DroppedUnchanged ==
    (\/ op.name = "rx" /\ op.req.rtype # CBC_REQ_T_PROT
     \/ /\ op.name \in {"rx", "tx"}
        /\ op.req.rtype = CBC_REQ_T_PROT
        /\ ChannelOf(op) \notin
               {IOC_NATIVE_LFCC, IOC_NATIVE_SIGNAL}
               \cup IOC_NATIVE_RAW0..IOC_NATIVE_RAW11) =>
        /\ xmit = <<>>
        /\ pkt.hb_state = op.pre.pkt.hb_state
        /\ pkt.soc_active = op.pre.pkt.soc_active
        /\ pkt.reason = op.pre.pkt.reason
        /\ pkt.boot_reason = op.pre.pkt.boot_reason
        /\ pkt.qtype = CBC_QUEUE_T_FREE
        /\ cbc_sig_tbl = op.pre.cbc_sig_tbl
        /\ cbc_grp_tbl = op.pre.cbc_grp_tbl
        /\ is_active = op.pre.is_active
        /\ tx_seq_counter = op.pre.tx_seq_counter
        /\ pkt.req.buf = op.req.buf
        /\ tx_q = op.tx_q

\* a frame of the DLT channel from the IOC, dropped after the signal
\* channel was opened and one frame was sent
DroppedUnchangedWitness ==
    /\ op.name = "rx"
    /\ op.req.rtype = CBC_REQ_T_PROT
    /\ ChannelOf(op) = IOC_NATIVE_DLT
    /\ is_active
    /\ tx_seq_counter = 1
    /\ xmit = <<>>

----------------------------------------------------------------------------
(* The two cursors of the scan.                                            *)

RECURSIVE CursorsOrdered(_, _, _, _, _)
\* from the scan state c on, before every entry and after the last:
\* valids is not above offset, and the bytes from offset on are still those
\* of the buffer orig the scan started with
CursorsOrdered(c, orig, tbl, rc, i) ==
    /\ c.valids <= c.offset
    /\ \A k \in (CBC_PAYLOAD_POS + c.offset)..(CBC_MAX_FRAME_SIZE - 1) :
          c.buf[k] = orig[k]
    /\ \/ c.abort
       \/ i >= c.buf[CBC_PAYLOAD_POS]
       \/ CursorsOrdered(ScanEntry(c, tbl, rc, i), orig, tbl, rc, i + 1)

\* C24: at every step of the scan of cbc_forward_signals the write cursor
\* valids is less than or equal to the read cursor offset, and no byte at
\* or behind the read cursor has been written: an entry is never
\* overwritten before it has been read.
CursorInvariant ==
    op.name = "forward" =>
        CursorsOrdered([buf |-> op.pre.pkt.req.buf, offset |-> 1,
                        valids |-> 1, num |-> 0, abort |-> FALSE],
                       op.pre.pkt.req.buf, op.pre.cbc_sig_tbl, op.rc, 0)

\* the first of three entries rejected: the other two moved down four
\* bytes, the service frame sent is four bytes shorter
CursorInvariantWitness ==
    /\ op.name = "forward"
    /\ op.dir = "tx"
    /\ op.ids = <<2, 3, 257>>
    /\ op.rc = <<-1, 0, 0>>
    /\ op.pre.pkt.req.srv_len = 12
    /\ pkt.req.srv_len = 8
    /\ Len(xmit) = 1

----------------------------------------------------------------------------
(* The state of the signal channel.                                        *)

\* C25: the signal channel starts inactive; it is active exactly when the
\* last open, reset or close command cbc_process_signal handled was an open
\* or a reset; a single, multi or group signal request with link_len = 0
\* is sent only while the channel is active, and one with link_len # 0 is
\* forwarded whatever the state of the channel.
SignalGating ==
    /\ ~is_active
    /\ [][ncalls' # ncalls =>
            is_active' =
               (IF \/ IsCommand(op', IOC_NATIVE_SIGNAL, CBC_SD_OPEN_CHANNEL)
                   \/ IsCommand(op', IOC_NATIVE_SIGNAL, CBC_SD_RESET_CHANNEL)
                THEN TRUE
                ELSE IF IsCommand(op', IOC_NATIVE_SIGNAL,
                                  CBC_SD_CLOSE_CHANNEL)
                THEN FALSE
                ELSE is_active)]_vars
    /\ [](\A cmd \in {CBC_SD_SINGLE_SIGNAL, CBC_SD_MULTI_SIGNAL,
                       CBC_SD_GROUP_SIGNAL} :
            IsCommand(op, IOC_NATIVE_SIGNAL, cmd) =>
               IF op.req.link_len = 0
               THEN /\ xmit # <<>> => op.pre.is_active
                    /\ ~op.pre.is_active =>
                          /\ xmit = <<>>
                          /\ tx_seq_counter = op.pre.tx_seq_counter
               ELSE ~ScanOverflows(op.req, op.pre.cbc_sig_tbl, 0, 1) =>
                          /\ Len(xmit) = 1
                          /\ xmit[1].id = IOC_NATIVE_SIGNAL)

\* the first call opened or reset the channel, the second is a group
\* signal from the native side: it goes to the virtual UART
SignalGatingWitness ==
    /\ IsCommand(op, IOC_NATIVE_SIGNAL, CBC_SD_GROUP_SIGNAL)
    /\ op.name = "tx"
    /\ ncalls = 2
    /\ op.pre.is_active
    /\ Len(xmit) = 1
    /\ xmit[1].id = IOC_VIRTUAL_UART
    /\ tx_seq_counter = 1

----------------------------------------------------------------------------
(* The rx and the tx handler as two concurrent flows.  Both reach          *)
(* cbc_pack_link: the tx flow for every frame from the native side, the   *)
(* rx flow through cbc_process_lifecycle and cbc_update_wakeup_reason for *)
(* a wakeup reason from the IOC.  tx_seq_counter is a static of           *)
(* cbc_pack_link, read at line 467 and increased at line 478 without any  *)
(* lock.  scn holds, for each flow, where it is and what it read.         *)

MaxRaceCalls == 3

\* lines 444-475 in flow t: the handler has come to cbc_pack_link and the
\* frame is built with the sequence value read from tx_seq_counter
RacePack(t) ==
    /\ ncalls < MaxRaceCalls
    /\ IF scn.kind = "none" THEN TRUE ELSE scn[t].pc = "idle"
    /\ \E req \in IF t = "rx"
                  THEN {RxReq(IOC_NATIVE_LFCC, <<CBC_SC_WK_RSN, 32, 0, 0>>),
                        RxReq(IOC_NATIVE_LFCC, <<CBC_SC_WK_RSN, 0, 2, 0>>)}
                  ELSE {TxReq(IOC_NATIVE_RAW0, Pattern(4)),
                        TxReq(IOC_NATIVE_RAW11, Pattern(9))} :
         \E s1 \in {IF t = "rx" THEN cbc_rx_handler(Dispatch(req))
                    ELSE cbc_tx_handler(Dispatch(req))} :
            /\ pkt' = s1.pkt
            /\ scn' = [(IF scn.kind = "none"
                        THEN [kind |-> "race",
                              rx |-> [pc |-> "idle", seq |-> 0, frame |-> <<>>],
                              tx |-> [pc |-> "idle", seq |-> 0, frame |-> <<>>]]
                        ELSE scn)
                       EXCEPT ![t] = [pc |-> "packed", seq |-> tx_seq_counter,
                                      frame |-> s1.xmit[1]]]
            /\ op' = [name |-> "race",
                      packed |-> Append(IF op.name = "race" THEN op.packed
                                        ELSE <<>>, s1.xmit[1].data)]
    /\ ncalls' = ncalls + 1
    /\ UNCHANGED <<rxVars, tx_seq_counter, is_active, cbc_sig_tbl,
                   cbc_grp_tbl, xmit, tx_q>>

\* line 478 and the call of ioc_ch_xmit in flow t.  The increment is an
\* unsynchronised read and write of a variable the other flow writes too:
\* it stores one more than the counter holds now or one more than the
\* value the flow read at line 467
RaceFinish(t) ==
    /\ scn.kind = "race"
    /\ scn[t].pc = "packed"
    /\ tx_seq_counter' \in {(tx_seq_counter + 1) % (CBC_SEQ_MASK + 1),
                            (scn[t].seq + 1) % (CBC_SEQ_MASK + 1)}
    /\ xmit' = Append(xmit, scn[t].frame)
    /\ scn' = [scn EXCEPT ![t] = [pc |-> "idle", seq |-> 0, frame |-> <<>>]]
    /\ UNCHANGED <<rxVars, pkt, is_active, cbc_sig_tbl, cbc_grp_tbl, tx_q,
                   op, ncalls>>

NextRace == \E t \in {"rx", "tx"} : RacePack(t) \/ RaceFinish(t)

SpecRace == InitPack /\ [][NextRace]_vars

\* C26 as stated: with the two handlers running as concurrent flows, the
\* frames packed for the virtual UART, in the order they were packed,
\* carry consecutive sequence numbers modulo CBC_SEQ_MASK + 1, none skipped
\* and none repeated.
ConsecutiveSequence ==
    LET packed == IF op.name = "race" THEN op.packed ELSE <<>>
    IN  \A i \in 1..(Len(packed) - 1) :
           SeqOf(packed[i + 1]) = ExpectedSeq(SeqOf(packed[i]))

=============================================================================
